---- MODULE Spec2Model ----
(***************************************************************************)
(* Model of Dreamistic/ProjectAIGirlfriend.                                *)
(*                                                                         *)
(*   SpecTodo     the task list engine (todo_system.py, class TodoList)    *)
(*   SpecAdds, SpecAddDelete  the task list under add alone, and under    *)
(*                add and delete                                           *)
(*   SpecSubtasks one task broken down and its subtasks completed          *)
(*   SpecSession  the session store (core/session_manager.py)              *)
(*   SpecSeq      consecutive create_new_session calls on one day          *)
(*   SpecTurn     the chat handler's turn driver fed by the CLI loop and   *)
(*                by simulated model responses; SpecTurnLive adds the      *)
(*                fairness of a call that runs to its return               *)
(*   SpecParse    parse_and_execute on one document of function calls      *)
(*   SpecDetector one streamed response fed chunk by chunk to the stream   *)
(*                function detectors (core/chat_handler.py, legacy)        *)
(*                                                                         *)
(* Every specification shares the one set of variables; a specification    *)
(* leaves the variables of the other components at their initial value.    *)
(***************************************************************************)
EXTENDS Integers, Sequences, FiniteSets, TLC

VARIABLES
    todos,      \* TodoList.todos: the ordered list of task dicts
    issued,     \* every id a task of the list has had so far
    call,       \* the call made last: its name, arguments and outcome
    steps,      \* the number of calls made so far
    files,                  \* logs/<day>/session_<id>.json: (day, id) -> document
    today,                  \* the calendar day datetime.now() shows
    wall,                   \* the second time.time() shows
    current_session_id,     \* SessionManager.current_session_id
    current_context,        \* SessionManager.current_context
    last_activity_time,     \* SessionManager.last_activity_time
    text,                   \* the response text the model streams
    fed,                    \* how many of its characters have arrived
    detector,               \* chat_handler.StreamFunctionDetector (hiding)
    report,                 \* what its last feed_chunk returned
    shown,                  \* what on_text_chunk has been given so far
    legacy,                 \* function_core.StreamFunctionDetector
    legacyReport,           \* what its last feed_chunk returned
    pc,                     \* "input": the CLI waits for a line; "turn":
                            \* process_conversation_turn is running
    depth,                  \* its depth argument
    turns,                  \* user inputs processed so far
    modelCalls,             \* model calls made for the current user input
    executed,               \* handlers invoked for the current user input
    responses,              \* the model's responses for the current input
    turnBase,               \* session length when the turn was entered
    returned,               \* what process_conversation_turn returned last
    pending_confirmation,   \* DebugChatInterface.pending_confirmation
    pending_results,        \* DebugChatInterface.pending_results
    xml,                    \* a document handed to parse_and_execute
    parsed                  \* what parse_and_execute made of it

todoVars == <<todos, issued>>
sessVars == <<files, today, wall, current_session_id, current_context,
              last_activity_time>>
detVars == <<text, fed, detector, report, shown, legacy, legacyReport>>
turnVars == <<pc, depth, turns, modelCalls, executed, responses, turnBase,
              returned, pending_confirmation, pending_results>>
vars == <<todos, issued, call, steps, files, today, wall, current_session_id,
          current_context, last_activity_time, text, fed, detector, report,
          shown, legacy, legacyReport, pc, depth, turns, modelCalls, executed,
          responses, turnBase, returned, pending_confirmation,
          pending_results, xml, parsed>>
regVars == <<xml, parsed>>

---------------------------------------------------------------------------
(* Bounds *)

MaxTodos == 2        \* longest task list
MaxBatch == 1        \* longest record list given to update_all
MaxSubtasks == 2     \* longest subtask list given to break_down_task
MaxSteps == 3        \* longest run of engine calls
MaxTime == 1         \* number of distinct readings of datetime.now()

---------------------------------------------------------------------------
(* Values *)

None == 0                                   \* Python None in a timestamp field
Times == 1..MaxTime
Contents == {"a"}
Statuses == {"pending", "in_progress", "completed"}
StatusInputs == Statuses \cup {"bogus"}     \* update_status does not validate
Priorities == {"high", "medium", "low"}
PriorityInputs == {"medium", "bogus"}       \* add and modify do not validate
ProgressInputs == {-20, 50, 100, 150}
IdInputs == 1..MaxTodos
SubtaskIdInputs == IdInputs \X (1..MaxSubtasks)   \* the text "{todo_id}-{i}"

Min(a, b) == IF a < b THEN a ELSE b
Max(a, b) == IF a > b THEN a ELSE b

HasKey(t, k) == k \in DOMAIN t
SetKey(t, k, v) == IF k \in DOMAIN t THEN [t EXCEPT ![k] = v] ELSE t @@ (k :> v)

\* the index of the first dict of ts whose "id" is id, 0 when there is none:
\* what every "for todo in self.todos: if todo['id'] == id" loop finds
Find(ts, id) ==
    IF \E i \in 1..Len(ts) : ts[i].id = id
    THEN CHOOSE i \in 1..Len(ts) :
            ts[i].id = id /\ \A j \in 1..(i - 1) : ts[j].id # id
    ELSE 0

RemoveAt(s, i) == SubSeq(s, 1, i - 1) \o SubSeq(s, i + 1, Len(s))

Result(ts, r) == [todos |-> ts, ret |-> r]

---------------------------------------------------------------------------
(* TodoList: the engine operations.  Each returns the list after the call  *)
(* and its outcome: "todo" (a dict), "absent" (None), "list", "true",      *)
(* "false" or "raised" (an exception left the method; what was assigned    *)
(* before it stays assigned).                                              *)

\* add numbering the tasks from 0
add_IdFromZero(ts, content, priority, now) ==
    Result(Append(ts, [id |-> Len(ts),
                       content |-> content,
                       status |-> "pending",
                       priority |-> priority,
                       progress |-> 0,
                       subtasks |-> << >>,
                       started_at |-> None,
                       completed_at |-> None,
                       execution_log |-> << >>]),
           "todo")

add(ts, content, priority, now) ==
    Result(Append(ts, [id |-> Len(ts) + 1,
                       content |-> content,
                       status |-> "pending",
                       priority |-> priority,
                       progress |-> 0,
                       subtasks |-> << >>,
                       started_at |-> None,
                       completed_at |-> None,
                       execution_log |-> << >>]),
           "todo")

modify(ts, id, content, priority) ==
    LET i == Find(ts, id) IN
    IF i = 0 THEN Result(ts, "absent")
    ELSE Result([ts EXCEPT ![i] = [@ EXCEPT !.content = content,
                                           !.priority = priority]], "todo")

delete(ts, id) ==
    LET i == Find(ts, id) IN
    IF i = 0 THEN Result(ts, "absent")
    ELSE Result(RemoveAt(ts, i), "todo")

\* update_all keeping the tasks the list held
update_all_Append(ts, todos_data) ==
    Result(ts \o [i \in 1..Len(todos_data) |->
              [id |-> i,
               content |-> todos_data[i].content,
               status |-> IF HasKey(todos_data[i], "status")
                          THEN todos_data[i].status ELSE "pending",
               priority |-> IF HasKey(todos_data[i], "priority")
                            THEN todos_data[i].priority ELSE "medium"]],
           "list")

\* a record of todos_data: "content" always (the adapter checks it), "status"
\* and "priority" when given
update_all(ts, todos_data) ==
    Result([i \in 1..Len(todos_data) |->
              [id |-> i,
               content |-> todos_data[i].content,
               status |-> IF HasKey(todos_data[i], "status")
                          THEN todos_data[i].status ELSE "pending",
               priority |-> IF HasKey(todos_data[i], "priority")
                            THEN todos_data[i].priority ELSE "medium"]],
           "list")

update_status(ts, id, status) ==
    LET i == Find(ts, id) IN
    IF i = 0 THEN Result(ts, "absent")
    ELSE Result([ts EXCEPT ![i] = [@ EXCEPT !.status = status]], "todo")

get_by_status(ts, status) == {i \in 1..Len(ts) : ts[i].status = status}

\* get_active_todos finding no task in progress
get_active_todos_None(ts) == {}

get_active_todos(ts) == {i \in 1..Len(ts) : ts[i].status = "in_progress"}

log_execution(ts, todo_id, action) ==
    LET i == Find(ts, todo_id) IN
    IF i = 0 THEN Result(ts, "false")
    ELSE IF ~HasKey(ts[i], "execution_log") THEN Result(ts, "raised")
    ELSE Result([ts EXCEPT ![i] = [@ EXCEPT !.execution_log = Append(@, action)]],
                "true")

\* the tail of a method after its log_execution call: an exception of the
\* call leaves the method, otherwise the method returns the dict
AfterLog(logged) ==
    IF logged.ret = "raised" THEN logged ELSE Result(logged.todos, "todo")

complete_todo(ts, todo_id, now) ==
    LET i == Find(ts, todo_id) IN
    IF i = 0 THEN Result(ts, "absent")
    ELSE LET t1 == SetKey(SetKey(SetKey(ts[i], "status", "completed"),
                                 "progress", 100), "completed_at", now)
         IN AfterLog(log_execution([ts EXCEPT ![i] = t1], todo_id, "completed"))

\* start_todo without its check for a task already in progress
start_todo_NoActiveCheck(ts, todo_id, now) ==
    LET i == Find(ts, todo_id) IN
    IF i = 0 THEN Result(ts, "absent")
    ELSE LET t1 == SetKey(SetKey(ts[i], "status", "in_progress"),
                          "started_at", now)
         IN AfterLog(log_execution([ts EXCEPT ![i] = t1], todo_id, "started"))

start_todo(ts, todo_id, now) ==
    IF get_active_todos(ts) # {} THEN Result(ts, "absent")
    ELSE LET i == Find(ts, todo_id) IN
         IF i = 0 THEN Result(ts, "absent")
         ELSE LET t1 == SetKey(SetKey(ts[i], "status", "in_progress"),
                               "started_at", now)
              IN AfterLog(log_execution([ts EXCEPT ![i] = t1], todo_id, "started"))

break_down_task(ts, todo_id, subtasks_list) ==
    LET i == Find(ts, todo_id) IN
    IF i = 0 THEN Result(ts, "absent")
    ELSE LET subtasks == [k \in 1..Len(subtasks_list) |->
                            [id |-> <<todo_id, k>>,
                             content |-> subtasks_list[k],
                             completed |-> FALSE]]
             t1 == SetKey(ts[i], "subtasks", subtasks)
         IN AfterLog(log_execution([ts EXCEPT ![i] = t1], todo_id, "breakdown"))

update_progress(ts, todo_id, progress, now) ==
    LET i == Find(ts, todo_id) IN
    IF i = 0 THEN Result(ts, "absent")
    ELSE IF ~HasKey(ts[i], "progress") THEN Result(ts, "raised")
    ELSE LET t1 == [ts[i] EXCEPT !.progress = Max(0, Min(100, progress))]
             logged == log_execution([ts EXCEPT ![i] = t1], todo_id, "progress")
         IN IF logged.ret = "raised" THEN logged
            ELSE IF progress >= 100
                 THEN LET done == complete_todo(logged.todos, todo_id, now)
                      IN IF done.ret = "raised" THEN done
                         ELSE Result(done.todos, "todo")
                 ELSE Result(logged.todos, "todo")

---------------------------------------------------------------------------
(* int((completed_count / total_count) * 100): Python divides and multiplies *)
(* in IEEE-754 double precision (53 significant bits, round to nearest, ties *)
(* to even) and int() truncates.  Numbers are kept as sequences of bits, the *)
(* most significant first, with the number of bits after the binary point.   *)
(* The operators are written without deep recursion.                         *)

Mantissa == 53
LimbBits == 16               \* the multiplication works on 16-bit pieces

Zeros(n) == [i \in 1..n |-> 0]

\* bits without its leading zero bits
StripZeros(a) ==
    LET ones == {i \in 1..Len(a) : a[i] = 1} IN
    IF ones = {} THEN << >>
    ELSE SubSeq(a, CHOOSE i \in ones : \A j \in ones : i <= j, Len(a))

\* the number a short bit sequence stands for
RECURSIVE BitsToInt(_)
BitsToInt(a) ==
    IF a = << >> THEN 0 ELSE 2 * BitsToInt(SubSeq(a, 1, Len(a) - 1)) + a[Len(a)]

\* bits + 1
Increment(a) ==
    LET zeros == {i \in 1..Len(a) : a[i] = 0} IN
    IF zeros = {} THEN <<1>> \o Zeros(Len(a))
    ELSE LET z == CHOOSE i \in zeros : \A j \in zeros : i >= j
         IN [i \in 1..Len(a) |-> IF i < z THEN a[i] ELSE IF i = z THEN 1 ELSE 0]

\* 2^i modulo d
RECURSIVE Pow2Mod(_, _)
Pow2Mod(i, d) ==
    IF i = 0 THEN 1 % d
    ELSE LET h == Pow2Mod(i \div 2, d)
         IN (((h * h) % d) * (IF i % 2 = 1 THEN 2 ELSE 1)) % d

\* what is left of r / d after its first n binary digits (0 <= r < d)
DivRest(r, d, n) == (r * Pow2Mod(n, d)) % d

\* the first n binary digits of r / d after the point
DivBits(r, d, n) == [i \in 1..n |-> (2 * DivRest(r, d, i - 1)) \div d]

\* the zero digits of r / d before its first one digit (0 < r < d)
LeadZeros(r, d) == CHOOSE z \in 0..20 : (2 ^ z) * r < d /\ (2 ^ (z + 1)) * r >= d

\* bits rounded to its first 53 significant bits; sticky tells that digits
\* beyond bits were already dropped.  [bits, dropped]: the kept bits and the
\* number of low bits dropped
RoundBits(bits, sticky) ==
    LET b == StripZeros(bits) IN
    IF Len(b) <= Mantissa THEN [bits |-> b, dropped |-> 0]
    ELSE LET kept == SubSeq(b, 1, Mantissa)
             rest == SubSeq(b, Mantissa + 1, Len(b))
             more == sticky \/ \E i \in 2..Len(rest) : rest[i] = 1
             up == rest[1] = 1 /\ (more \/ kept[Mantissa] = 1)
         IN [bits |-> IF up THEN Increment(kept) ELSE kept,
             dropped |-> Len(rest)]

\* the double k / d for 0 < k < d: [bits, scale], the value bits * 2^(-scale)
FloatDiv(k, d) ==
    LET z == LeadZeros(k, d)
        r == RoundBits(DivBits(k, d, z + Mantissa + 1),
                       DivRest(k, d, z + Mantissa + 1) # 0)
    IN [bits |-> r.bits, scale |-> z + Mantissa + 1 - r.dropped]

\* the j-th 16-bit piece of bits, counted from the least significant end
Limb(a, j) ==
    LET hi == Len(a) - LimbBits * j
        lo == hi - LimbBits + 1
    IN IF hi < 1 THEN 0 ELSE BitsToInt(SubSeq(a, IF lo < 1 THEN 1 ELSE lo, hi))

\* bits * 100, piece by piece with the carries
TimesHundred(a) ==
    LET B == 2 ^ LimbBits
        p0 == 100 * Limb(a, 0)
        p1 == 100 * Limb(a, 1) + p0 \div B
        p2 == 100 * Limb(a, 2) + p1 \div B
        p3 == 100 * Limb(a, 3) + p2 \div B
        out == <<p0 % B, p1 % B, p2 % B, p3 % B, p3 \div B>>
    IN [i \in 1..(5 * LimbBits) |->
          LET pos == 5 * LimbBits - i IN
          (out[pos \div LimbBits + 1] \div (2 ^ (pos % LimbBits))) % 2]

\* the double x * 100
FloatTimes100(x) ==
    LET r == RoundBits(TimesHundred(x.bits), FALSE)
    IN [bits |-> r.bits, scale |-> x.scale - r.dropped]

\* int(x) for a double x >= 0
FloatToInt(x) ==
    IF x.scale >= Len(x.bits) THEN 0
    ELSE BitsToInt(SubSeq(x.bits, 1, Len(x.bits) - x.scale))

\* int((completed_count / total_count) * 100) for 0 <= completed <= total
IntPercent(completed_count, total_count) ==
    IF completed_count = 0 THEN 0
    ELSE IF completed_count = total_count THEN 100
    ELSE FloatToInt(FloatTimes100(FloatDiv(completed_count, total_count)))

\* the index of the first subtask whose id is subtask_id, 0 when there is none
FindSubtask(subtasks, subtask_id) ==
    IF \E k \in 1..Len(subtasks) : subtasks[k].id = subtask_id
    THEN CHOOSE k \in 1..Len(subtasks) :
            subtasks[k].id = subtask_id
            /\ \A j \in 1..(k - 1) : subtasks[j].id # subtask_id
    ELSE 0

CompletedCount(subtasks) ==
    Cardinality({k \in 1..Len(subtasks) : subtasks[k].completed})

complete_subtask(ts, todo_id, subtask_id, now) ==
    LET i == Find(ts, todo_id) IN
    IF i = 0 THEN Result(ts, "absent")
    ELSE IF ~HasKey(ts[i], "subtasks") THEN Result(ts, "raised")
    ELSE LET k == FindSubtask(ts[i].subtasks, subtask_id) IN
         IF k = 0 THEN Result(ts, "absent")
         ELSE LET t1 == [ts[i] EXCEPT !.subtasks[k].completed = TRUE]
                  logged == log_execution([ts EXCEPT ![i] = t1], todo_id,
                                          "subtask_completed")
              IN IF logged.ret = "raised" THEN logged
                 ELSE LET completed_count == CompletedCount(t1.subtasks)
                          total_count == Len(t1.subtasks)
                          t2 == [logged.todos[i] EXCEPT
                                   !.progress = IntPercent(completed_count, total_count)]
                          ts2 == [logged.todos EXCEPT ![i] = t2]
                      IN IF completed_count = total_count
                         THEN LET done == complete_todo(ts2, todo_id, now)
                              IN IF done.ret = "raised" THEN done
                                 ELSE Result(done.todos, "todo")
                         ELSE Result(ts2, "todo")

---------------------------------------------------------------------------
(* SpecTodo: one task list driven by its operations *)

\* a call: its name, the task id, progress value, status and subtask id it
\* was given (0, "" and <<0, 0>> when it takes none), its outcome, the
\* session id it was given or returned (NoId when none), and for a capability
\* the Python type of the id argument it was handed ("" otherwise)
CallOf(op, id, val, status, sub, ret, sid) ==
    [op |-> op, id |-> id, val |-> val, status |-> status, sub |-> sub,
     ret |-> ret, sid |-> sid, arg |-> ""]

NoCall == CallOf("none", 0, 0, "", <<0, 0>>, "none", << >>)

IdsOf(ts) == {ts[i].id : i \in 1..Len(ts)}

\* the engine call op(id, val, status, sub) with outcome r takes the list to
\* r.todos; it is made while fewer than limit calls were made
CalledWithin(limit, op, id, val, status, sub, r) ==
    /\ steps < limit
    /\ steps' = steps + 1
    /\ todos' = r.todos
    /\ issued' = issued \cup IdsOf(r.todos)
    /\ call' = CallOf(op, id, val, status, sub, r.ret, << >>)
    /\ UNCHANGED <<sessVars, detVars, turnVars, regVars>>

Called(op, id, val, status, sub, r) ==
    CalledWithin(MaxSteps, op, id, val, status, sub, r)

\* SessionManager.__init__ over an empty logs directory
SessionFresh ==
    /\ files = << >>
    /\ today = 1
    /\ wall = 0
    /\ current_session_id = << >>
    /\ current_context = << >>
    /\ last_activity_time = 0

\* a detector after reset(), before any response
DetectorFresh ==
    /\ text = << >>
    /\ fed = 0
    /\ detector = [buffer |-> << >>, in_function_block |-> FALSE,
                   start_tag_found |-> FALSE, function_hint_shown |-> FALSE]
    /\ report = [stop |-> FALSE, call |-> << >>]
    /\ shown = << >>
    /\ legacy = [buffer |-> << >>, in_function_block |-> FALSE,
                 start_tag_found |-> FALSE]
    /\ legacyReport = [stop |-> FALSE, call |-> << >>]

\* the CLI before its first input line
TurnFresh ==
    /\ pc = "input"
    /\ depth = 0
    /\ turns = 0
    /\ modelCalls = 0
    /\ executed = 0
    /\ responses = << >>
    /\ turnBase = 0
    /\ returned = ""
    /\ pending_confirmation = FALSE
    /\ pending_results = << >>

\* the registry before any document was handed to parse_and_execute
NotParsed == [done |-> FALSE, raised |-> FALSE, results |-> << >>, ran |-> << >>]
RegistryFresh ==
    /\ xml = [blocks |-> << >>]
    /\ parsed = NotParsed

TodoInit ==
    /\ todos = << >>
    /\ issued = {}
    /\ call = NoCall
    /\ steps = 0
    /\ SessionFresh
    /\ DetectorFresh
    /\ TurnFresh
    /\ RegistryFresh

Add ==
    /\ Len(todos) < MaxTodos
    /\ \E c \in Contents, p \in PriorityInputs, now \in Times :
          Called("add", 0, 0, "", <<0, 0>>, add(todos, c, p, now))

Modify ==
    \E id \in IdInputs, c \in Contents, p \in PriorityInputs :
        Called("modify", id, 0, "", <<0, 0>>, modify(todos, id, c, p))

Delete ==
    \E id \in IdInputs : Called("delete", id, 0, "", <<0, 0>>, delete(todos, id))

\* the records batch_update_todos accepts: content, and status and priority
\* present or not
TodoData ==
    {[content |-> c] : c \in Contents}
    \cup {[content |-> c, status |-> s] :
            c \in Contents, s \in StatusInputs \ {"pending"}}
    \cup {[content |-> c, priority |-> "bogus"] : c \in Contents}
    \cup {[content |-> c, status |-> "in_progress", priority |-> "high"] :
            c \in Contents}

SeqsUpTo(S, n) == UNION {[1..k -> S] : k \in 0..n}

UpdateAll ==
    \E data \in SeqsUpTo(TodoData, MaxBatch) :
        Called("update_all", 0, 0, "", <<0, 0>>, update_all(todos, data))

UpdateStatus ==
    \E id \in IdInputs, s \in StatusInputs :
        Called("update_status", id, 0, s, <<0, 0>>, update_status(todos, id, s))

StartTodo ==
    \E id \in IdInputs, now \in Times :
        Called("start_todo", id, 0, "", <<0, 0>>, start_todo(todos, id, now))

BreakDownTask ==
    \E id \in IdInputs, subs \in SeqsUpTo(Contents, MaxSubtasks) :
        Called("break_down_task", id, 0, "", <<0, 0>>,
               break_down_task(todos, id, subs))

UpdateProgress ==
    \E id \in IdInputs, v \in ProgressInputs, now \in Times :
        Called("update_progress", id, v, "", <<0, 0>>,
               update_progress(todos, id, v, now))

CompleteSubtask ==
    \E id \in IdInputs, sid \in SubtaskIdInputs, now \in Times :
        Called("complete_subtask", id, 0, "", sid,
               complete_subtask(todos, id, sid, now))

TodoNext ==
    \/ Add
    \/ Modify
    \/ Delete
    \/ UpdateAll
    \/ UpdateStatus
    \/ StartTodo
    \/ BreakDownTask
    \/ UpdateProgress
    \/ CompleteSubtask

SpecTodo == TodoInit /\ [][TodoNext]_vars

---------------------------------------------------------------------------
(* Claims about the task list engine, checked under SpecTodo *)

\* C1: in every reachable state of a task list at most one task has status
\* in_progress.
C1_AtMostOneInProgress == Cardinality(get_active_todos(todos)) <= 1

StatusOps ==
    {"start_todo", "update_status", "update_progress", "break_down_task",
     "complete_subtask"}

\* C2: once a task is completed, no call of start_todo, update_status,
\* update_progress, break_down_task or complete_subtask gives it another status.
C2_CompletedIsFinal ==
    [][call'.op \in StatusOps =>
         \A i \in 1..Len(todos) :
             todos[i].status = "completed" =>
                 i <= Len(todos') /\ todos'[i].status = "completed"]_vars

C10_UpdateProgress ==
    [][(call'.op = "update_progress" /\ Find(todos, call'.id) # 0) =>
         LET i == Find(todos, call'.id)
             v == call'.val
         IN /\ Len(todos') = Len(todos)
            /\ HasKey(todos'[i], "progress")
            /\ todos'[i].progress = Min(100, Max(0, v))
            /\ v >= 100 => /\ todos'[i].status = "completed"
                           /\ HasKey(todos'[i], "completed_at")
                           /\ todos'[i].completed_at # None
            /\ v < 100 => todos'[i].status = todos[i].status]_vars

\* C10 on the tasks that add creates (the dicts with every field): the part of
\* C10 that the code keeps.
C10_OnFullTasks ==
    [][(call'.op = "update_progress" /\ Find(todos, call'.id) # 0
        /\ HasKey(todos[Find(todos, call'.id)], "progress")
        /\ HasKey(todos[Find(todos, call'.id)], "execution_log")) =>
         LET i == Find(todos, call'.id)
             v == call'.val
         IN /\ Len(todos') = Len(todos)
            /\ todos'[i].progress = Min(100, Max(0, v))
            /\ v >= 100 => /\ todos'[i].status = "completed"
                           /\ todos'[i].completed_at # None
            /\ v < 100 => todos'[i].status = todos[i].status]_vars

---------------------------------------------------------------------------
(* SpecAdds: add called again and again on a list that starts empty;        *)
(* SpecAddDelete: add and delete in any order (no update_all)               *)

MaxAdds == 6
MaxListSteps == 5

AddAgain ==
    \E c \in Contents, p \in PriorityInputs, now \in Times :
        CalledWithin(MaxAdds, "add", 0, 0, "", <<0, 0>>, add(todos, c, p, now))

SpecAdds == TodoInit /\ [][AddAgain]_vars

AddTask ==
    \E c \in Contents, p \in PriorityInputs, now \in Times :
        CalledWithin(MaxListSteps, "add", 0, 0, "", <<0, 0>>,
                     add(todos, c, p, now))

DeleteTask ==
    \E id \in IdInputs :
        CalledWithin(MaxListSteps, "delete", id, 0, "", <<0, 0>>,
                     delete(todos, id))

SpecAddDelete == TodoInit /\ [][AddTask \/ DeleteTask]_vars

\* C12: over any sequence of add and delete, a newly added task gets an id
\* that no earlier task of the list had, and the ids in the list are pairwise
\* distinct.
C12_IdsNotReused ==
    /\ [][call'.op = "add" => todos'[Len(todos')].id \notin issued]_vars
    /\ [](\A i, j \in 1..Len(todos) : todos[i].id = todos[j].id => i = j)

\* C13: n consecutive add calls on an empty list give the tasks the ids 1..n
\* in call order, each pending, with progress 0 and no subtasks.
C13_ConsecutiveAdds ==
    /\ [](\A i \in 1..Len(todos) :
             /\ todos[i].id = i
             /\ todos[i].status = "pending"
             /\ todos[i].progress = 0
             /\ todos[i].subtasks = << >>)
    /\ [](Len(todos) = steps)
    /\ [][/\ call'.op = "add"
          /\ call'.ret = "todo"
          /\ Len(todos') = Len(todos) + 1
          /\ SubSeq(todos', 1, Len(todos)) = todos]_vars

\* C13 witness: three tasks added, one after the other.
C13_Witness ==
    /\ call.op = "add"
    /\ steps = 3
    /\ Len(todos) = 3
    /\ todos[3].id = 3

---------------------------------------------------------------------------
(* SpecSubtasks: one task broken down into n subtasks, which are then       *)
(* completed one by one in their order                                      *)

MaxSubtaskCount == 50

\* the list after add(content) and break_down_task(1, n contents)
SubtaskInit ==
    /\ \E n \in 1..MaxSubtaskCount, c \in Contents, now \in Times :
          todos = break_down_task(add(<< >>, c, "medium", now).todos, 1,
                                  [k \in 1..n |-> c]).todos
    /\ issued = {1}
    /\ call = NoCall
    /\ steps = 0
    /\ SessionFresh
    /\ DetectorFresh
    /\ TurnFresh
    /\ RegistryFresh

\* the ordinal of the first subtask not yet completed (none: the empty set)
FirstOpen(subtasks) ==
    LET open == {k \in 1..Len(subtasks) : ~subtasks[k].completed} IN
    {k \in open : \A j \in open : k <= j}

CompleteNextSubtask ==
    /\ \E k \in FirstOpen(todos[1].subtasks), now \in Times :
          LET r == complete_subtask(todos, 1, <<1, k>>, now) IN
          /\ todos' = r.todos
          /\ call' = CallOf("complete_subtask", 1, 0, "", <<1, k>>, r.ret, << >>)
    /\ UNCHANGED <<issued, steps, sessVars, detVars, turnVars, regVars>>

SpecSubtasks == SubtaskInit /\ [][CompleteNextSubtask]_vars

\* C11: after complete_subtask of a subtask of a task with N >= 1 subtasks, k of
\* them then completed, the task's progress is floor(100*k/N); for k = N the
\* task is completed with progress 100, for k < N its status is unchanged.
C11_SubtaskProgress ==
    [][(/\ call'.op = "complete_subtask"
        /\ Find(todos, call'.id) # 0
        /\ HasKey(todos[Find(todos, call'.id)], "subtasks")
        /\ FindSubtask(todos[Find(todos, call'.id)].subtasks, call'.sub) # 0) =>
         LET i == Find(todos, call'.id)
             N == Len(todos'[i].subtasks)
             k == CompletedCount(todos'[i].subtasks)
         IN /\ todos'[i].subtasks[FindSubtask(todos[i].subtasks, call'.sub)].completed
            /\ HasKey(todos'[i], "progress")
            /\ todos'[i].progress = (100 * k) \div N
            /\ k = N => todos'[i].status = "completed" /\ todos'[i].progress = 100
            /\ k < N => todos'[i].status = todos[i].status]_vars

\* C11 for tasks of at most 49 subtasks that add created.
C11_UpTo49 ==
    [][(/\ call'.op = "complete_subtask"
        /\ Find(todos, call'.id) # 0
        /\ HasKey(todos[Find(todos, call'.id)], "subtasks")
        /\ HasKey(todos[Find(todos, call'.id)], "execution_log")
        /\ Len(todos[Find(todos, call'.id)].subtasks) <= 49
        /\ FindSubtask(todos[Find(todos, call'.id)].subtasks, call'.sub) # 0) =>
         LET i == Find(todos, call'.id)
             N == Len(todos'[i].subtasks)
             k == CompletedCount(todos'[i].subtasks)
         IN /\ todos'[i].progress = (100 * k) \div N
            /\ k = N => todos'[i].status = "completed" /\ todos'[i].progress = 100
            /\ k < N => todos'[i].status = todos[i].status]_vars

---------------------------------------------------------------------------
(* SessionManager: per-day numbered sessions kept as JSON files.  A session *)
(* id is the text "session_" followed by digits; the model keeps the digits *)
(* as a sequence, so that formatting and the ordering of file names are     *)
(* what the code computes.                                                  *)

MaxDays == 3         \* number of calendar days
MaxSessionSteps == 5 \* longest run of session manager calls (SpecSession)
MaxCreates == 1000   \* longest run of create_new_session calls (SpecSeq)

session_timeout == 1800
NoId == << >>                       \* current_session_id = None
Roles == {"user", "assistant"}
MsgTexts == {"hi"}

RECURSIVE Digits(_)
Digits(n) == IF n < 10 THEN <<n>> ELSE Digits(n \div 10) \o <<n % 10>>

\* format(n, "03d"): the decimal digits, zero-padded on the left to width 3
Format03d(n) ==
    LET d == Digits(n) IN
    IF Len(d) >= 3 THEN d ELSE [i \in 1..(3 - Len(d)) |-> 0] \o d

\* the last of sorted(names) as Python orders the file names
\* "session_<digits>.json": character by character from the left, '.' below
\* every digit.  Among the names that agree before position pos, one that
\* ends there is below the longer ones, and the longer ones are ordered by
\* their digit at pos.
RECURSIVE LastFrom(_, _)
LastFrom(names, pos) ==
    LET longer == {x \in names : Len(x) >= pos} IN
    IF longer = {} THEN CHOOSE x \in names : TRUE
    ELSE LET top == CHOOSE d \in 0..9 :
                       /\ \E x \in longer : x[pos] = d
                       /\ \A x \in longer : x[pos] <= d
         IN LastFrom({x \in longer : x[pos] = top}, pos + 1)

\* ids of the session files in the directory of a day: glob("session_*.json")
SessionFilesOf(fs, day) == {k[2] : k \in {x \in DOMAIN fs : x[1] = day}}

Write(fs, day, id, doc) == (<<day, id>> :> doc) @@ fs

generate_session_id(fs, day) ==
    Format03d(Cardinality(SessionFilesOf(fs, day)) + 1)

\* the session manager's fields and the files, as one record
SM == [files |-> files,
       current_session_id |-> current_session_id,
       current_context |-> current_context,
       last_activity_time |-> last_activity_time]

create_new_session(sm, day, t) ==
    LET id == generate_session_id(sm.files, day) IN
    [files |-> Write(sm.files, day, id,
                     [session_id |-> id, created_at |-> t,
                      last_activity |-> t, messages |-> << >>]),
     current_session_id |-> id,
     current_context |-> << >>,
     last_activity_time |-> t]

save_current_session(sm, day, t) ==
    IF sm.current_session_id = NoId THEN sm
    ELSE [sm EXCEPT !.files =
            Write(sm.files, day, sm.current_session_id,
                  [session_id |-> sm.current_session_id, created_at |-> t,
                   last_activity |-> t, messages |-> sm.current_context])]

\* the directories _find_session_in_history can return for an id: iterdir
\* yields the date directories in no particular order
HistoryDirs(fs, session_id) == {d \in 1..MaxDays : <<d, session_id>> \in DOMAIN fs}

\* load_session reading the file of directory dir (today's when it is there)
load_session(sm, session_id, day, dir, t) ==
    LET from == IF <<day, session_id>> \in DOMAIN sm.files THEN day ELSE dir IN
    IF <<from, session_id>> \notin DOMAIN sm.files THEN sm
    ELSE [sm EXCEPT !.current_session_id = sm.files[<<from, session_id>>].session_id,
                    !.current_context = sm.files[<<from, session_id>>].messages,
                    !.last_activity_time = t]

get_latest_session_id(fs) ==
    LET days == {d \in 1..MaxDays : SessionFilesOf(fs, d) # {}} IN
    IF days = {} THEN NoId
    ELSE LET day == CHOOSE d \in days : \A e \in days : e <= d
         IN LastFrom(SessionFilesOf(fs, day), 1)

\* add_message saving the session before it appends the message
add_message_SaveFirst(sm, role, content, day, t) ==
    [save_current_session(sm, day, t) EXCEPT
        !.current_context = Append(@, [role |-> role, content |-> content,
                                       timestamp |-> t]),
        !.last_activity_time = t]

add_message(sm, role, content, day, t) ==
    save_current_session(
        [sm EXCEPT !.current_context =
                      Append(@, [role |-> role, content |-> content, timestamp |-> t]),
                   !.last_activity_time = t],
        day, t)

clear_current_session(sm, day, t) ==
    save_current_session([sm EXCEPT !.current_context = << >>], day, t)

\* check_timeout reporting a timeout from 1800 seconds on
check_timeout_AtLeast(sm, t) == t - sm.last_activity_time >= session_timeout

check_timeout(sm, t) == t - sm.last_activity_time > session_timeout

---------------------------------------------------------------------------
(* SpecSession: the session manager driven by its operations and by the    *)
(* calendar *)

\* the session call op(sid) with outcome ret takes the manager to sm
SessionCalled(op, ret, sid, sm) ==
    /\ steps < MaxSessionSteps
    /\ steps' = steps + 1
    /\ files' = sm.files
    /\ current_session_id' = sm.current_session_id
    /\ current_context' = sm.current_context
    /\ last_activity_time' = sm.last_activity_time
    /\ call' = CallOf(op, 0, 0, "", <<0, 0>>, ret, sid)
    /\ UNCHANGED <<todos, issued, today, wall, detVars, turnVars, regVars>>

SessionInit ==
    /\ todos = << >>
    /\ issued = {}
    /\ call = NoCall
    /\ steps = 0
    /\ SessionFresh
    /\ DetectorFresh
    /\ TurnFresh
    /\ RegistryFresh

CreateNewSession ==
    LET sm == create_new_session(SM, today, wall) IN
    SessionCalled("create_new_session", "id", sm.current_session_id, sm)

AddMessage ==
    \E role \in Roles, content \in MsgTexts :
        SessionCalled("add_message", "none", << >>,
                      add_message(SM, role, content, today, wall))

ClearCurrentSession ==
    SessionCalled("clear_current_session", "none", << >>,
                  clear_current_session(SM, today, wall))

\* the ids load_session is asked for: those of the files, and one of no file
LoadIds ==
    {k[2] : k \in DOMAIN files} \cup {Format03d(Cardinality(DOMAIN files) + 2)}

LoadSession ==
    \E id \in LoadIds :
        \/ /\ <<today, id>> \notin DOMAIN files
           /\ HistoryDirs(files, id) = {}
           /\ SessionCalled("load_session", "false", id, SM)
        \/ \E dir \in HistoryDirs(files, id) :
              SessionCalled("load_session", "true", id,
                            load_session(SM, id, today, dir, wall))

LoadLatestSession ==
    LET latest == get_latest_session_id(files) IN
    \/ /\ latest = NoId
       /\ SessionCalled("load_latest_session", "false", << >>, SM)
    \/ /\ latest # NoId
       /\ \E dir \in HistoryDirs(files, latest) :
             SessionCalled("load_latest_session", "true", latest,
                           load_session(SM, latest, today, dir, wall))

\* midnight passes
NextDay ==
    /\ today < MaxDays
    /\ today' = today + 1
    /\ call' = CallOf("next_day", 0, 0, "", <<0, 0>>, "none", << >>)
    /\ UNCHANGED <<todos, issued, steps, files, wall, current_session_id,
                   current_context, last_activity_time, detVars, turnVars, regVars>>

SessionNext ==
    \/ CreateNewSession
    \/ AddMessage
    \/ ClearCurrentSession
    \/ LoadSession
    \/ LoadLatestSession
    \/ NextDay

SpecSession == SessionInit /\ [][SessionNext]_vars

---------------------------------------------------------------------------
(* SpecSeq: create_new_session called again and again on one day, from a   *)
(* day directory without session files *)

CreateAgain ==
    /\ Cardinality(DOMAIN files) < MaxCreates
    /\ LET sm == create_new_session(SM, today, wall) IN
       /\ files' = sm.files
       /\ current_session_id' = sm.current_session_id
       /\ current_context' = sm.current_context
       /\ last_activity_time' = sm.last_activity_time
       /\ call' = CallOf("create_new_session", 0, 0, "", <<0, 0>>, "id",
                         sm.current_session_id)
       /\ UNCHANGED <<todos, issued, steps, today, wall, detVars, turnVars, regVars>>

SpecSeq == SessionInit /\ [][CreateAgain]_vars

\* the number a session id stands for
RECURSIVE IdNumber(_)
IdNumber(d) ==
    IF d = << >> THEN 0 ELSE 10 * IdNumber(SubSeq(d, 1, Len(d) - 1)) + d[Len(d)]

\* the most recent day whose directory holds a session file
LatestDay(fs) ==
    CHOOSE d \in 1..MaxDays :
        /\ SessionFilesOf(fs, d) # {}
        /\ \A e \in 1..MaxDays : SessionFilesOf(fs, e) # {} => e <= d

HighestNumbered(ids) ==
    CHOOSE x \in ids : \A y \in ids : IdNumber(y) <= IdNumber(x)

\* C20: load_latest_session loads the highest-numbered session of the most
\* recent date directory that holds a session file: after it returns true the
\* in-memory id and messages are those stored in that file, also when an
\* older directory holds a session file of the same id.
C20_LoadLatest ==
    [][(call'.op = "load_latest_session" /\ call'.ret = "true") =>
          LET day == LatestDay(files)
              id == HighestNumbered(SessionFilesOf(files, day))
          IN /\ current_session_id' = files[<<day, id>>].session_id
             /\ current_context' = files[<<day, id>>].messages]_vars

\* C20 when no other directory holds a session file of the id that
\* get_latest_session_id returns.
C20_UniqueId ==
    [][(/\ call'.op = "load_latest_session"
        /\ call'.ret = "true"
        /\ Cardinality(HistoryDirs(files, get_latest_session_id(files))) = 1) =>
          LET day == LatestDay(files)
              id == HighestNumbered(SessionFilesOf(files, day))
          IN /\ current_session_id' = files[<<day, id>>].session_id
             /\ current_context' = files[<<day, id>>].messages]_vars


\* C21: after every add_message and clear_current_session whose write
\* succeeds, the session file stored for the current session id holds exactly
\* the in-memory message list, same messages in the same order.
C21_FileMirrorsMemory ==
    [][(call'.op \in {"add_message", "clear_current_session"}
          /\ current_session_id' # NoId) =>
          /\ <<today', current_session_id'>> \in DOMAIN files'
          /\ files'[<<today', current_session_id'>>].session_id = current_session_id'
          /\ files'[<<today', current_session_id'>>].messages = current_context']_vars

\* C21 witness: a second message was added on the day after the session was
\* created; the day's file holds both messages, the older file only the first.
C21_Witness ==
    /\ call.op = "add_message"
    /\ today = 2
    /\ Len(current_context) = 2
    /\ <<2, current_session_id>> \in DOMAIN files
    /\ files[<<2, current_session_id>>].messages = current_context
    /\ <<1, current_session_id>> \in DOMAIN files
    /\ Len(files[<<1, current_session_id>>].messages) = 1

---------------------------------------------------------------------------
(* SpecWrites: the session manager and the log manager on a disk whose      *)
(* writes may fail *)

MaxWriteSteps == 4   \* longest run of writing calls (SpecWrites)

\* create_new_session when open() or json.dump may raise: the fields are
\* assigned before the write, and the write is not inside a try
create_new_session_io(sm, day, t, ok) ==
    IF ok THEN [sm |-> create_new_session(sm, day, t), raised |-> FALSE]
    ELSE [sm |-> [create_new_session(sm, day, t) EXCEPT !.files = sm.files],
          raised |-> TRUE]

\* save_current_session when the write may raise: except Exception prints
save_current_session_io(sm, day, t, ok) ==
    IF ok THEN save_current_session(sm, day, t) ELSE sm

add_message_io(sm, role, content, day, t, ok) ==
    save_current_session_io(
        [sm EXCEPT !.current_context = Append(@, [role |-> role, content |-> content,
                                                  timestamp |-> t]),
                   !.last_activity_time = t],
        day, t, ok)

clear_current_session_io(sm, day, t, ok) ==
    save_current_session_io([sm EXCEPT !.current_context = << >>], day, t, ok)

WriteStatus(ok) == IF ok THEN "written" ELSE "write failed"

\* the writing call op with outcome ret takes the manager to sm
Wrote(op, ok, ret, sm) ==
    /\ steps < MaxWriteSteps
    /\ steps' = steps + 1
    /\ files' = sm.files
    /\ current_session_id' = sm.current_session_id
    /\ current_context' = sm.current_context
    /\ last_activity_time' = sm.last_activity_time
    /\ call' = CallOf(op, 0, 0, WriteStatus(ok), <<0, 0>>, ret, << >>)
    /\ UNCHANGED <<todos, issued, today, wall, detVars, turnVars, regVars>>

WriteCreate ==
    \E ok \in BOOLEAN :
        LET r == create_new_session_io(SM, today, wall, ok) IN
        Wrote("create_new_session", ok, IF r.raised THEN "raised" ELSE "id", r.sm)

WriteAddMessage ==
    \E ok \in BOOLEAN, role \in Roles, content \in MsgTexts :
        Wrote("add_message", ok, "none",
              add_message_io(SM, role, content, today, wall, ok))

WriteClear ==
    \E ok \in BOOLEAN :
        Wrote("clear_current_session", ok, "none",
              clear_current_session_io(SM, today, wall, ok))

\* _write_log: the append is inside try / except Exception
WriteLog ==
    \E ok \in BOOLEAN : Wrote("_write_log", ok, "none", SM)

WritesNext ==
    \/ WriteCreate
    \/ WriteAddMessage
    \/ WriteClear
    \/ WriteLog

SpecWrites == SessionInit /\ [][WritesNext]_vars

Memory(sm) == <<sm.current_session_id, sm.current_context, sm.last_activity_time>>

\* the in-memory state the call recorded in call' leaves when its write
\* succeeds
MemoryWhenWritten ==
    IF call'.op = "create_new_session"
    THEN Memory(create_new_session(SM, today, wall))
    ELSE IF call'.op = "add_message"
    THEN LET m == current_context'[Len(current_context')] IN
         Memory(add_message(SM, m.role, m.content, today, wall))
    ELSE IF call'.op = "clear_current_session"
    THEN Memory(clear_current_session(SM, today, wall))
    ELSE Memory(SM)

\* C18: a failing session-file or log-file write is caught: whichever
\* operation performs it (create_new_session, save_current_session via
\* add_message or clear, a log write), no exception reaches the caller and the
\* in-memory session state is the one a successful write leaves.
C18_WriteFailures ==
    [][call'.status = "write failed" =>
          /\ call'.ret # "raised"
          /\ <<current_session_id', current_context', last_activity_time'>>
                = MemoryWhenWritten]_vars

\* C18 for the writes of save_current_session and _write_log, and the memory
\* part of it for create_new_session.
C18_CaughtWrites ==
    [][call'.status = "write failed" =>
          /\ call'.op # "create_new_session" => call'.ret # "raised"
          /\ <<current_session_id', current_context', last_activity_time'>>
                = MemoryWhenWritten]_vars

---------------------------------------------------------------------------
(* SpecClock: the session manager's calls with time.time() advancing        *)
(* between them *)

\* the seconds that can pass between two calls
Elapses == {1, session_timeout}

\* time passes between two calls
Tick ==
    /\ steps < MaxSessionSteps
    /\ steps' = steps + 1
    /\ \E d \in Elapses : wall' = wall + d
    /\ call' = CallOf("tick", 0, 0, "", <<0, 0>>, "none", << >>)
    /\ UNCHANGED <<todos, issued, files, today, current_session_id,
                   current_context, last_activity_time, detVars, turnVars, regVars>>

CheckTimeout ==
    SessionCalled("check_timeout",
                  IF check_timeout(SM, wall) THEN "true" ELSE "false", << >>, SM)

ClockNext ==
    \/ CreateNewSession
    \/ AddMessage
    \/ LoadSession
    \/ CheckTimeout
    \/ Tick

SpecClock == SessionInit /\ [][ClockNext]_vars

\* C19: check_timeout returns true exactly when more than 1800 seconds have
\* passed since the last recorded activity (false at exactly 1800), and the
\* timeout is not due right after add_message, create_new_session or a
\* successful load_session.
C19_Timeout ==
    /\ [](call.op = "check_timeout" =>
            (call.ret = "true" <=> wall - last_activity_time > 1800))
    /\ [][(\/ call'.op \in {"add_message", "create_new_session"}
           \/ call'.op = "load_session" /\ call'.ret = "true")
             => /\ last_activity_time' = wall'
                /\ ~(wall' - last_activity_time' > 1800)]_vars

\* C19 witness: check_timeout answered false exactly 1800 seconds after the
\* last activity of the current session.
C19_Witness ==
    /\ call.op = "check_timeout"
    /\ call.ret = "false"
    /\ wall - last_activity_time = 1800
    /\ current_session_id # NoId

\* check_timeout answered true 1801 seconds after the last activity
C19_TimedOut ==
    /\ call.op = "check_timeout"
    /\ call.ret = "true"
    /\ wall - last_activity_time = 1801

---------------------------------------------------------------------------
(* Claims about the session manager *)

\* C7: create_new_session always allocates an id for which the current day's
\* directory holds no session file, so it never overwrites a stored session.
C7_FreshSessionId ==
    [][call'.op = "create_new_session" =>
         <<today, current_session_id'>> \notin DOMAIN files]_vars

\* the created ids in creation order are 1, 2, ..., n formatted to 3 digits
CreatedInOrder ==
    LET n == Cardinality(DOMAIN files) IN
    /\ SessionFilesOf(files, today) = {Format03d(i) : i \in 1..n}
    /\ n > 0 => /\ call.op = "create_new_session"
                /\ call.sid = Format03d(n)
                /\ current_session_id = Format03d(n)

\* C8: from an empty day directory, n consecutive create_new_session calls
\* return session_001 .. session_n in order, and get_latest_session_id then
\* returns the id created last.
C8_ConsecutiveIds ==
    /\ CreatedInOrder
    /\ Cardinality(DOMAIN files) > 0 =>
          get_latest_session_id(files) = current_session_id

\* C8 for at most 999 sessions a day, the three digits of the id format
C8_UpTo999 ==
    Cardinality(DOMAIN files) <= 999 => C8_ConsecutiveIds

---------------------------------------------------------------------------
(* StreamFunctionDetector: texts are sequences of characters *)

PadLen == 21         \* length of the long plain prefix of a response

OpenTag ==
    <<"<", "f", "u", "n", "c", "t", "i", "o", "n", "_", "c", "a", "l", "l",
      "s", ">">>
CloseTag ==
    <<"<", "/", "f", "u", "n", "c", "t", "i", "o", "n", "_", "c", "a", "l",
      "l", "s", ">">>
Hint == <<"HINT">>           \* the one-time "executing..." hint, one symbol
BufferTail == 20

\* str.find from position from: the first index where pat occurs in s, 0
\* when it does not
IndexOf(s, pat, from) ==
    LET hits == {i \in from..(Len(s) - Len(pat) + 1) :
                    SubSeq(s, i, i + Len(pat) - 1) = pat}
    IN IF hits = {} THEN 0 ELSE CHOOSE i \in hits : \A j \in hits : i <= j

Contains(s, pat) == IndexOf(s, pat, 1) # 0

\* re.search(r'<function_calls>(.*?)</function_calls>', s, DOTALL).group(0),
\* << >> when there is no match
SearchBlock(s) ==
    LET o == IndexOf(s, OpenTag, 1)
        c == IF o = 0 THEN 0 ELSE IndexOf(s, CloseTag, o + Len(OpenTag))
    IN IF c = 0 THEN << >> ELSE SubSeq(s, o, c + Len(CloseTag) - 1)

\* buffer[-20:] keeping fewer characters than the opening marker has
KeepTail_Short(buffer) ==
    IF Len(buffer) > 10 THEN SubSeq(buffer, Len(buffer) - 9, Len(buffer))
    ELSE buffer

\* a detector that never shortens its buffer
KeepTail_All(buffer) == buffer

\* if len(self.buffer) > 20: self.buffer = self.buffer[-20:]
KeepTail(buffer) ==
    IF Len(buffer) > BufferTail
    THEN SubSeq(buffer, Len(buffer) - BufferTail + 1, Len(buffer))
    ELSE buffer

\* the hiding detector's feed_chunk: the detector after the chunk, the stop
\* flag, the extracted call (<< >> for None) and the chunk to display
feed_chunk(det, chunk) ==
    LET buffer == det.buffer \o chunk IN
    IF ~det.start_tag_found /\ ~Contains(buffer, OpenTag)
    THEN [det |-> [det EXCEPT !.buffer = KeepTail(buffer)],
          stop |-> FALSE, call |-> << >>, clean |-> chunk]
    ELSE LET found == ~det.start_tag_found
             before == IF Contains(chunk, OpenTag)
                       THEN SubSeq(chunk, 1, IndexOf(chunk, OpenTag, 1) - 1)
                       ELSE << >>
             clean == IF found
                      THEN IF det.function_hint_shown THEN before
                           ELSE before \o Hint
                      ELSE << >>
             det2 == [buffer |-> buffer,
                      in_function_block |-> IF found THEN TRUE
                                            ELSE det.in_function_block,
                      start_tag_found |-> TRUE,
                      function_hint_shown |-> IF found THEN TRUE
                                              ELSE det.function_hint_shown]
             block == SearchBlock(buffer)
         IN IF det2.in_function_block /\ Contains(buffer, CloseTag)
               /\ block # << >>
            THEN [det |-> det2, stop |-> TRUE, call |-> block, clean |-> << >>]
            ELSE [det |-> det2, stop |-> FALSE, call |-> << >>, clean |-> clean]

\* a non-hiding detector that keeps its whole buffer while it waits for the
\* opening marker
legacy_feed_chunk_NoTrim(det, chunk) ==
    LET buffer == det.buffer \o chunk IN
    IF ~det.start_tag_found /\ ~Contains(buffer, OpenTag)
    THEN [det |-> [det EXCEPT !.buffer = buffer],
          stop |-> FALSE, call |-> << >>]
    ELSE LET det2 == [buffer |-> buffer,
                      in_function_block |-> IF det.start_tag_found
                                            THEN det.in_function_block ELSE TRUE,
                      start_tag_found |-> TRUE]
             block == SearchBlock(buffer)
         IN IF det2.in_function_block /\ Contains(buffer, CloseTag)
               /\ block # << >>
            THEN [det |-> det2, stop |-> TRUE, call |-> block]
            ELSE [det |-> det2, stop |-> FALSE, call |-> << >>]

\* the non-hiding detector's feed_chunk (legacy/function_core.py, 0827.py)
legacy_feed_chunk(det, chunk) ==
    LET buffer == det.buffer \o chunk IN
    IF ~det.start_tag_found /\ ~Contains(buffer, OpenTag)
    THEN [det |-> [det EXCEPT !.buffer = KeepTail(buffer)],
          stop |-> FALSE, call |-> << >>]
    ELSE LET det2 == [buffer |-> buffer,
                      in_function_block |-> IF det.start_tag_found
                                            THEN det.in_function_block ELSE TRUE,
                      start_tag_found |-> TRUE]
             block == SearchBlock(buffer)
         IN IF det2.in_function_block /\ Contains(buffer, CloseTag)
               /\ block # << >>
            THEN [det |-> det2, stop |-> TRUE, call |-> block]
            ELSE [det |-> det2, stop |-> FALSE, call |-> << >>]

---------------------------------------------------------------------------
(* SpecDetector: get_response_stream's loop over the chunks of one response, *)
(* for every way of cutting the response into chunks *)

Pad(n) == [i \in 1..n |-> "a"]

Prefixes ==
    {<< >>, <<"h", "i", " ">>, Pad(PadLen), <<"<", "f">>, CloseTag}
Bodies == {<< >>, <<"x">>, OpenTag}
Suffixes == {<< >>, <<"w">>}

\* responses holding a complete block, and responses holding none
BlockTexts ==
    {p \o OpenTag \o b \o CloseTag \o e :
        p \in Prefixes, b \in Bodies, e \in Suffixes}
PlainTexts ==
    {Pad(PadLen) \o <<"<", "f">>,
     <<"h", "i">> \o OpenTag \o <<"x">>,
     Pad(PadLen) \o SubSeq(OpenTag, 1, Len(OpenTag) - 1) \o <<"x">> \o CloseTag}
Texts == BlockTexts \cup PlainTexts

DetectorInit ==
    /\ todos = << >>
    /\ issued = {}
    /\ call = NoCall
    /\ steps = 0
    /\ SessionFresh
    /\ text \in Texts
    /\ fed = 0
    /\ detector = [buffer |-> << >>, in_function_block |-> FALSE,
                   start_tag_found |-> FALSE, function_hint_shown |-> FALSE]
    /\ report = [stop |-> FALSE, call |-> << >>]
    /\ shown = << >>
    /\ legacy = [buffer |-> << >>, in_function_block |-> FALSE,
                 start_tag_found |-> FALSE]
    /\ legacyReport = [stop |-> FALSE, call |-> << >>]
    /\ TurnFresh
    /\ RegistryFresh

\* one "content_block_delta" event of the stream: the next n characters.
\* The loop returns at the first stop report, so no chunk follows it.
FeedChunk ==
    /\ fed < Len(text)
    /\ ~report.stop
    /\ \E n \in 1..(Len(text) - fed) :
          LET chunk == SubSeq(text, fed + 1, fed + n)
              r == feed_chunk(detector, chunk)
              l == legacy_feed_chunk(legacy, chunk)
          IN /\ fed' = fed + n
             /\ detector' = r.det
             /\ report' = [stop |-> r.stop, call |-> r.call]
             /\ shown' = IF r.stop /\ r.call # << >> THEN shown
                         ELSE shown \o r.clean
             /\ legacy' = l.det
             /\ legacyReport' = [stop |-> l.stop, call |-> l.call]
    /\ UNCHANGED <<todos, issued, call, steps, sessVars, text, turnVars, regVars>>

SpecDetector == DetectorInit /\ [][FeedChunk]_vars

---------------------------------------------------------------------------
(* Claims about the detectors, checked under SpecDetector *)

BlockStart == IndexOf(text, OpenTag, 1)
BlockEnd ==
    IF BlockStart = 0 THEN 0
    ELSE LET c == IndexOf(text, CloseTag, BlockStart + Len(OpenTag))
         IN IF c = 0 THEN 0 ELSE c + Len(CloseTag) - 1
HasBlock == BlockEnd # 0

\* C5: for every chunking of a response that holds a complete block, both
\* detectors report stop on the chunk that completes the closing marker and
\* not before, and the extracted block is the span from the first opening
\* marker to the first closing marker after it.
C5_StopAtClosingMarker ==
    HasBlock =>
        /\ report.stop <=> fed >= BlockEnd
        /\ report.stop => report.call = SubSeq(text, BlockStart, BlockEnd)
        /\ legacyReport = report

\* C5 witness: the opening marker arrived split over two chunks (its first
\* part reached the display), after more than 20 characters of plain text,
\* and the stop has been reported.
C5_Witness ==
    /\ HasBlock
    /\ report.stop
    /\ BlockStart > BufferTail
    /\ \E k \in BlockStart..(BlockStart + Len(OpenTag) - 2) :
          shown = SubSeq(text, 1, k) \o Hint

\* C32: fed the same chunks from a reset state, the hiding and the non-hiding
\* detector report the same stop flag and the same extracted block on every
\* chunk and keep the same buffer and flags.
C32_SameDetectionCore ==
    /\ legacyReport = report
    /\ legacy.buffer = detector.buffer
    /\ legacy.in_function_block = detector.in_function_block
    /\ legacy.start_tag_found = detector.start_tag_found

\* C32 witness: both detectors cut their buffers while more than 20
\* characters of plain text arrived, then met the opening marker in a later
\* chunk and reported the block
C32_Witness ==
    /\ legacyReport.stop
    /\ legacyReport.call # << >>
    /\ BlockStart > BufferTail + 1
    /\ Len(legacy.buffer) < fed
    /\ Len(detector.buffer) < fed

\* C6: in the hiding detector the displayed text never holds a part of the
\* markup: it is a prefix of the text before the opening marker, or all of
\* that text followed by the hint, and all of it once the block is complete.
C6_DisplayHidesMarkup ==
    HasBlock =>
        LET pre == SubSeq(text, 1, BlockStart - 1) IN
        /\ \/ \E n \in 0..Len(pre) : shown = SubSeq(pre, 1, n)
           \/ shown = pre \o Hint
        /\ report.stop => shown \in {pre, pre \o Hint}

---------------------------------------------------------------------------
(* Function registry: call, parse_and_execute, format_results.  A handler   *)
(* is known by what it does when invoked: it returns a text, returns a text *)
(* that holds the confirmation sentinel, or raises.                         *)

MaxTurns == 1                  \* user inputs in one run of the CLI

MAX_CONVERSATION_DEPTH == 5
DepthError == "error: max conversation depth reached"
Sentinel == "needs user input Y to confirm"

Registered == {"known"}
Outcomes == {"value", "sentinel", "raises"}

FunctionResult(success, content, function_name, error, needs_confirmation) ==
    [success |-> success, content |-> content, function_name |-> function_name,
     error |-> error, needs_confirmation |-> needs_confirmation]

\* call running a default handler for a name that is not registered
registry_call_UnknownSucceeds(inv) ==
    IF inv.outcome = "raises"
    THEN FunctionResult(FALSE, "", inv.name, "boom", FALSE)
    ELSE IF inv.outcome = "sentinel"
    THEN FunctionResult(FALSE, Sentinel, inv.name, "", TRUE)
    ELSE FunctionResult(TRUE, "done", inv.name, "", FALSE)

\* FunctionRegistry.call on one parsed invoke; error "" stands for None
registry_call(inv) ==
    IF inv.name \notin Registered
    THEN FunctionResult(FALSE, "", inv.name,
                        "Function '" \o inv.name \o "' not found", FALSE)
    ELSE IF inv.outcome = "raises"
    THEN FunctionResult(FALSE, "", inv.name, "boom", FALSE)
    ELSE IF inv.outcome = "sentinel"
    THEN FunctionResult(FALSE, Sentinel, inv.name, "", TRUE)
    ELSE FunctionResult(TRUE, "done", inv.name, "", FALSE)

\* re.findall over the blocks and, in each block, over its invokes: the
\* invokes of the document in document order
RECURSIVE InvokesOf(_)
InvokesOf(blocks) ==
    IF blocks = << >> THEN << >> ELSE Head(blocks) \o InvokesOf(Tail(blocks))

\* self.call(func_name, **parameters) cannot bind its arguments when a
\* parameter is called like one of call's own: Python raises TypeError at the
\* call site, outside call's try
CallArguments == {"self", "name"}
BindingFails(inv) == inv.params \cap CallArguments # {}

\* the loop of parse_and_execute over the invokes: the results appended, the
\* handlers run (in order), and whether an exception left the loop
RECURSIVE ExecuteAll(_)
ExecuteAll(invokes) ==
    IF invokes = << >>
    THEN [raised |-> FALSE, results |-> << >>, ran |-> << >>]
    ELSE LET inv == Head(invokes) IN
         IF BindingFails(inv)
         THEN [raised |-> TRUE, results |-> << >>, ran |-> << >>]
         ELSE LET rest == ExecuteAll(Tail(invokes)) IN
              [raised |-> rest.raised,
               results |-> <<registry_call(inv)>> \o rest.results,
               ran |-> (IF inv.name \in Registered THEN <<inv>> ELSE << >>)
                          \o rest.ran]

\* parse_and_execute on a document: the list it returns (none when an
\* exception leaves it) and the handlers it ran
parse_and_execute(doc) ==
    LET all == ExecuteAll(InvokesOf(doc.blocks)) IN
    [raised |-> all.raised,
     results |-> IF all.raised THEN << >> ELSE all.results,
     ran |-> all.ran]

\* the number of handlers parse_and_execute runs on a response
HandlersRun(resp) == Len(parse_and_execute(resp).ran)

format_result_xml(content, success) ==
    IF success THEN "<success>" \o content \o "</success>"
    ELSE "<failed>" \o content \o "</failed>"

RECURSIVE JoinResults(_)
JoinResults(results) ==
    IF results = << >> THEN ""
    ELSE LET r == Head(results)
             one == IF r.needs_confirmation THEN format_result_xml(r.content, FALSE)
                    ELSE IF r.success THEN format_result_xml(r.content, TRUE)
                    ELSE format_result_xml(IF r.error # "" THEN r.error
                                           ELSE "unknown error", FALSE)
         IN one \o JoinResults(Tail(results))

format_results(results) ==
    IF results = << >> THEN ""
    ELSE "<function_response>" \o JoinResults(results) \o "</function_response>"

---------------------------------------------------------------------------
(* SpecTurn: the CLI loop handing user inputs to process_conversation_turn, *)
(* the model answering each call with one of a few simulated responses      *)

\* an invoke: the name called, what its handler does when run, and the names
\* of its parameters
Inv(name, outcome, params) ==
    [name |-> name, outcome |-> outcome, params |-> params]

TurnCall(ret) == CallOf("process_conversation_turn", 0, 0, "", <<0, 0>>, ret, << >>)

\* what get_response_stream can return: a plain reply, the partial text of a
\* stream that failed, or a response cut at the end of a function-call block
\* holding the given invokes
Responses ==
    {[kind |-> "text", content |-> "ok", blocks |-> << >>],
     [kind |-> "failed", content |-> "", blocks |-> << >>],
     [kind |-> "failed", content |-> "par", blocks |-> << >>],
     [kind |-> "failed", content |-> "<function_calls>val", blocks |-> << >>],
     [kind |-> "calls", content |-> "<function_calls></function_calls>",
      blocks |-> << << >> >>],
     [kind |-> "calls", content |-> "<function_calls>ghost,raises,value</function_calls>",
      blocks |-> << <<Inv("ghost", "value", {}), Inv("known", "raises", {"a"}),
                      Inv("known", "value", {"a"})>> >>],
     [kind |-> "calls", content |-> "<function_calls>value,sentinel</function_calls>",
      blocks |-> << <<Inv("known", "value", {}), Inv("known", "sentinel", {})>> >>],
     [kind |-> "calls", content |-> "<function_calls>value,name</function_calls>",
      blocks |-> << <<Inv("known", "value", {}),
                      Inv("known", "value", {"name"})>> >>],
     [kind |-> "calls", content |-> "<function_calls>sentinel,name</function_calls>",
      blocks |-> << <<Inv("known", "sentinel", {}),
                      Inv("known", "value", {"name"})>> >>]}

\* get_response_stream reporting function calls for a failed stream too
has_function_calls_AlsoOnFailure(resp) == resp.kind \in {"calls", "failed"}

\* the second value get_response_stream returns: True only from the return at
\* a complete function-call block, False at the end of the stream and from
\* the except branch
has_function_calls(resp) == resp.kind = "calls"

\* the handler after construction: initialize_session found no session and
\* created session_001
TurnInit ==
    /\ todos = << >>
    /\ issued = {}
    /\ call = NoCall
    /\ steps = 0
    /\ today = 1
    /\ wall = 0
    /\ LET sm == create_new_session(
                    [files |-> << >>, current_session_id |-> NoId,
                     current_context |-> << >>, last_activity_time |-> 0], 1, 0)
       IN /\ files = sm.files
          /\ current_session_id = sm.current_session_id
          /\ current_context = sm.current_context
          /\ last_activity_time = sm.last_activity_time
    /\ DetectorFresh
    /\ TurnFresh
    /\ RegistryFresh

SetSession(sm) ==
    /\ files' = sm.files
    /\ current_session_id' = sm.current_session_id
    /\ current_context' = sm.current_context
    /\ last_activity_time' = sm.last_activity_time

\* main.py run(): a message line is read; add_user_message (with its timeout
\* check) and then process_conversation_turn() is entered with depth 0
UserInput ==
    /\ pc = "input"
    /\ ~pending_confirmation
    /\ turns < MaxTurns
    /\ \E m \in MsgTexts :
          LET sm0 == IF check_timeout(SM, wall)
                     THEN create_new_session(SM, today, wall) ELSE SM
              sm == add_message(sm0, "user", m, today, wall)
          IN /\ SetSession(sm)
             /\ turnBase' = Len(sm.current_context)
    /\ pc' = "turn"
    /\ depth' = 0
    /\ turns' = turns + 1
    /\ modelCalls' = 0
    /\ executed' = 0
    /\ responses' = << >>
    /\ UNCHANGED <<todos, issued, call, steps, today, wall, detVars, returned,
                   pending_confirmation, pending_results, regVars>>

\* main.py run(): a confirmation is pending and a line is read as its answer;
\* handle_confirmation only computes the message printed
Confirmation ==
    /\ pc = "input"
    /\ pending_confirmation
    /\ pending_confirmation' = FALSE
    /\ pending_results' = << >>
    /\ call' = [CallOf("handle_confirmation", 0, 0, "", <<0, 0>>, "none", << >>)
                  EXCEPT !.arg = ""]
    /\ UNCHANGED <<todos, issued, steps, sessVars, detVars, pc, depth, turns,
                   modelCalls, executed, responses, turnBase, returned, regVars>>

\* if depth > self.max_depth
DepthLimitReached_Above(d) == d > MAX_CONVERSATION_DEPTH

\* if depth >= self.max_depth
DepthLimitReached(d) == d >= MAX_CONVERSATION_DEPTH

\* process_conversation_turn entered at or above the depth limit
DepthLimit ==
    /\ pc = "turn"
    /\ DepthLimitReached(depth)
    /\ returned' = DepthError
    /\ pc' = "input"
    /\ call' = TurnCall("returned")
    /\ UNCHANGED <<todos, issued, steps, sessVars, detVars, depth, turns,
                   modelCalls, executed, responses, turnBase,
                   pending_confirmation, pending_results, regVars>>

\* one activation of process_conversation_turn below the limit: the model
\* call, the assistant message, and for a function-call response the
\* execution, the function-response message and the pause or the recursion
TurnStep ==
    /\ pc = "turn"
    /\ ~DepthLimitReached(depth)
    /\ \E resp \in Responses :
          LET sm1 == add_message(SM, "assistant", resp.content, today, wall)
              done == parse_and_execute(resp)
              results == done.results
              needs_confirmation ==
                  \E i \in 1..Len(results) : results[i].needs_confirmation
              sm2 == add_message(sm1, "assistant", format_results(results),
                                 today, wall)
              \* on_function_call is main.py's function_call_handler, called
              \* once parse_and_execute has returned
              handled == has_function_calls(resp) /\ ~done.raised
          IN /\ modelCalls' = modelCalls + 1
             /\ responses' = Append(responses, resp)
             /\ pending_confirmation' =
                    IF handled /\ needs_confirmation THEN TRUE
                    ELSE pending_confirmation
             /\ pending_results' =
                    IF handled /\ needs_confirmation THEN results
                    ELSE pending_results
             /\ IF has_function_calls(resp) /\ done.raised
                THEN \* the exception leaves process_conversation_turn, at
                     \* every depth, and is caught by the CLI loop
                     /\ SetSession(sm1)
                     /\ executed' = executed + HandlersRun(resp)
                     /\ pc' = "input"
                     /\ call' = TurnCall("raised")
                     /\ UNCHANGED <<returned, depth>>
                ELSE IF has_function_calls(resp)
                THEN /\ SetSession(sm2)
                     /\ executed' = executed + HandlersRun(resp)
                     /\ IF needs_confirmation
                        THEN /\ returned' = resp.content
                             /\ pc' = "input"
                             /\ depth' = depth
                             /\ call' = TurnCall("returned")
                        ELSE /\ depth' = depth + 1
                             /\ call' = TurnCall("recursed")
                             /\ UNCHANGED <<pc, returned>>
                ELSE /\ SetSession(sm1)
                     /\ returned' = resp.content
                     /\ pc' = "input"
                     /\ call' = TurnCall("returned")
                     /\ UNCHANGED <<executed, depth>>
    /\ UNCHANGED <<todos, issued, steps, today, wall, detVars, turns, turnBase,
                   regVars>>

TurnNext ==
    \/ UserInput
    \/ Confirmation
    \/ TurnStep
    \/ DepthLimit

SpecTurn == TurnInit /\ [][TurnNext]_vars

\* a call of process_conversation_turn runs on to its return, every model
\* call returning
SpecTurnLive == SpecTurn /\ WF_vars(TurnStep) /\ WF_vars(DepthLimit)

---------------------------------------------------------------------------
(* SpecParse: parse_and_execute handed one document of function-call blocks *)

MaxBlocks == 2
MaxInvokes == 2

InvokeKinds ==
    {Inv("ghost", "value", {}), Inv("known", "value", {"a"}),
     Inv("known", "raises", {}), Inv("known", "value", {"name"})}

Documents ==
    {[blocks |-> b] : b \in SeqsUpTo(SeqsUpTo(InvokeKinds, MaxInvokes), MaxBlocks)}

ParseInit ==
    /\ todos = << >>
    /\ issued = {}
    /\ call = NoCall
    /\ steps = 0
    /\ SessionFresh
    /\ DetectorFresh
    /\ TurnFresh
    /\ xml \in Documents
    /\ parsed = NotParsed

ParseAndExecute ==
    /\ ~parsed.done
    /\ LET r == parse_and_execute(xml) IN
       parsed' = [done |-> TRUE, raised |-> r.raised, results |-> r.results,
                  ran |-> r.ran]
    /\ UNCHANGED <<todos, issued, call, steps, sessVars, detVars, turnVars, xml>>

SpecParse == ParseInit /\ [][ParseAndExecute]_vars

IsRegistered(inv) == inv.name \in Registered

\* C14: parse_and_execute returns one result per invoke of the document, in
\* document order over all blocks, having run the handlers in that order; an
\* unknown name or a raising handler gives a failure result and every later
\* invoke is still executed.
C14_OneResultPerInvoke ==
    parsed.done =>
        LET invs == InvokesOf(xml.blocks) IN
        /\ ~parsed.raised
        /\ Len(parsed.results) = Len(invs)
        /\ \A i \in 1..Len(invs) :
              /\ parsed.results[i].function_name = invs[i].name
              /\ (~IsRegistered(invs[i]) \/ invs[i].outcome = "raises")
                    => ~parsed.results[i].success
              /\ (IsRegistered(invs[i]) /\ invs[i].outcome = "value")
                    => parsed.results[i].success
        /\ parsed.ran = SelectSeq(invs, IsRegistered)

\* C14 for documents in which no invoke has a parameter called name or self.
C14_BindableParameters ==
    (parsed.done /\ \A i \in 1..Len(InvokesOf(xml.blocks)) :
                       ~BindingFails(InvokesOf(xml.blocks)[i])) =>
        LET invs == InvokesOf(xml.blocks) IN
        /\ ~parsed.raised
        /\ Len(parsed.results) = Len(invs)
        /\ \A i \in 1..Len(invs) :
              /\ parsed.results[i].function_name = invs[i].name
              /\ (~IsRegistered(invs[i]) \/ invs[i].outcome = "raises")
                    => ~parsed.results[i].success
              /\ (IsRegistered(invs[i]) /\ invs[i].outcome = "value")
                    => parsed.results[i].success
        /\ parsed.ran = SelectSeq(invs, IsRegistered)

\* C15: a call of a name that is not registered runs no handler and returns a
\* failure result whose error text holds "not found"; format_results renders
\* it as one <failed> element in one <function_response> envelope.
C15_UnknownName ==
    (parsed.done /\ ~parsed.raised) =>
        LET invs == InvokesOf(xml.blocks) IN
        /\ \A i \in 1..Len(parsed.results) :
              ~IsRegistered(invs[i]) =>
                 /\ parsed.results[i] =
                       FunctionResult(FALSE, "", invs[i].name,
                                      "Function 'ghost' not found", FALSE)
                 /\ format_results(<<parsed.results[i]>>) =
                       "<function_response><failed>Function 'ghost' not found</failed></function_response>"
        /\ \A j \in 1..Len(parsed.ran) : IsRegistered(parsed.ran[j])
        /\ Len(parsed.ran) = Len(SelectSeq(invs, IsRegistered))

\* C15 witness: a document whose second block calls the unknown name, after a
\* block that called a registered one.
C15_Witness ==
    /\ parsed.done
    /\ Len(xml.blocks) = 2
    /\ Len(parsed.results) = 2
    /\ parsed.results[1].success
    /\ parsed.results[2].function_name = "ghost"
    /\ Len(parsed.ran) = 1

---------------------------------------------------------------------------
(* Claims about the turn driver *)

\* C3: for one user input process_conversation_turn makes at most 5 model
\* calls and always returns; entered at depth >= 5 it returns the depth-limit
\* error without a model call, without executing a capability and without
\* appending to the session.
C3_DepthLimit ==
    /\ [](modelCalls <= 5)
    /\ [][(pc = "turn" /\ depth >= 5) =>
            /\ pc' = "input"
            /\ returned' = DepthError
            /\ modelCalls' = modelCalls
            /\ executed' = executed
            /\ current_context' = current_context
            /\ files' = files]_vars
    /\ (pc = "turn") ~> (pc = "input")

\* C3 witness: a turn that used all five model calls and returned the
\* depth-limit error.
C3_Witness ==
    /\ pc = "input"
    /\ returned = DepthError
    /\ modelCalls = 5
    /\ depth = 5

Appended == SubSeq(current_context, turnBase + 1, Len(current_context))

\* the turn returned after k function-call responses and a plain-text reply
PlainTurnDone ==
    /\ pc = "input"
    /\ responses # << >>
    /\ responses[Len(responses)].kind = "text"
    /\ \A i \in 1..(Len(responses) - 1) : responses[i].kind = "calls"

IsEnvelope(content, results) ==
    /\ content # ""
    /\ content = "<function_response>" \o JoinResults(results)
                    \o "</function_response>"

\* C4: a turn of k function-call responses (0 <= k < 5) and a plain-text
\* reply appends exactly 2k+1 assistant messages, raw response then
\* function-response envelope for each call and then the final reply, makes
\* k+1 model calls and returns the final reply unchanged.
C4_TurnAppends ==
    PlainTurnDone =>
        LET k == Len(responses) - 1 IN
        /\ k < 5
        /\ Len(Appended) = 2 * k + 1
        /\ \A j \in 1..Len(Appended) : Appended[j].role = "assistant"
        /\ \A i \in 1..k :
              /\ Appended[2 * i - 1].content = responses[i].content
              /\ IsEnvelope(Appended[2 * i].content,
                            parse_and_execute(responses[i]).results)
        /\ Appended[2 * k + 1].content = responses[k + 1].content
        /\ modelCalls = k + 1
        /\ returned = responses[k + 1].content

\* C4 without the shape of the function-response message: the counts, the
\* order of the raw responses and the returned reply.
C4_Counts ==
    PlainTurnDone =>
        LET k == Len(responses) - 1 IN
        /\ k < 5
        /\ Len(Appended) = 2 * k + 1
        /\ \A i \in 1..k :
              /\ Appended[2 * i - 1].content = responses[i].content
              /\ Appended[2 * i].content =
                    format_results(parse_and_execute(responses[i]).results)
        /\ Appended[2 * k + 1].content = responses[k + 1].content
        /\ modelCalls = k + 1
        /\ returned = responses[k + 1].content

\* the results of the calls a response made parse_and_execute run, whether or
\* not it returned them
ResultsOfCalls(resp) == ExecuteAll(InvokesOf(resp.blocks)).results

Flagged(resp) ==
    /\ resp.kind = "calls"
    /\ \E i \in 1..Len(ResultsOfCalls(resp)) :
          ResultsOfCalls(resp)[i].needs_confirmation

Message(role, content, t) == [role |-> role, content |-> content, timestamp |-> t]

\* the activation that just ended was handed resp, appended the raw text and
\* the function-response envelope, returned the raw text and did not recurse
PausedOn(resp) ==
    /\ current_context' = current_context \o
          <<Message("assistant", resp.content, wall),
            Message("assistant", format_results(ResultsOfCalls(resp)), wall)>>
    /\ IsEnvelope(format_results(ResultsOfCalls(resp)), ResultsOfCalls(resp))
    /\ returned' = resp.content
    /\ call'.ret = "returned"
    /\ pc' = "input"
    /\ depth' = depth

\* C16: when a result of the calls executed in an activation is flagged
\* needs_confirmation, process_conversation_turn appends the raw assistant text
\* and then the function-response envelope, returns the assistant text and
\* makes no further model call in that turn, whatever the other results are.
C16_ConfirmationPause ==
    [][(modelCalls' = modelCalls + 1 /\ Flagged(responses'[Len(responses')]))
          => PausedOn(responses'[Len(responses')])]_vars

\* C16 for the responses parse_and_execute returns from.
C16_WhenReturned ==
    [][(/\ modelCalls' = modelCalls + 1
        /\ Flagged(responses'[Len(responses')])
        /\ ~parse_and_execute(responses'[Len(responses')]).raised)
          => PausedOn(responses'[Len(responses')])]_vars

\* the activation that just recursed, and the message it appended last
Recursed == call'.op = "process_conversation_turn" /\ call'.ret = "recursed"

LastAppended == current_context'[Len(current_context')]

\* C39: whenever the turn driver recurses after a detected function-call
\* block, the message it appended just before is a non-empty, well-formed
\* function-response envelope holding one success or failed element per
\* executed invoke, also when the block holds no parsable invoke.
C39_EnvelopeBeforeRecursion ==
    [][Recursed =>
          /\ current_context' # << >>
          /\ LastAppended.role = "assistant"
          /\ LastAppended.content # ""
          /\ IsEnvelope(LastAppended.content,
                        parse_and_execute(responses'[Len(responses')]).results)]_vars

\* C39 for the blocks that hold at least one invoke
C39_EnvelopeOfInvokes ==
    [][(Recursed /\ parse_and_execute(responses'[Len(responses')]).results # << >>) =>
          /\ LastAppended.role = "assistant"
          /\ IsEnvelope(LastAppended.content,
                        parse_and_execute(responses'[Len(responses')]).results)
          /\ Len(current_context') = Len(current_context) + 2]_vars

\* the driver recursed after a block of three invokes
C39_RecursedAfterInvokes ==
    /\ call.op = "process_conversation_turn"
    /\ call.ret = "recursed"
    /\ Len(parse_and_execute(responses[Len(responses)]).results) = 3
    /\ IsEnvelope(current_context[Len(current_context)].content,
                  parse_and_execute(responses[Len(responses)]).results)

\* C17: when the streaming model call fails, the partial text is kept and the
\* activation reports no function calls: no capability is executed, exactly
\* one assistant message (the partial text) is appended, the turn makes no
\* further model call, and process_conversation_turn returns the partial text
\* to the CLI loop instead of raising.
C17_StreamFailure ==
    /\ [][(modelCalls' = modelCalls + 1
             /\ responses'[Len(responses')].kind = "failed") =>
            /\ current_context' = current_context \o
                  <<Message("assistant", responses'[Len(responses')].content, wall)>>
            /\ executed' = executed
            /\ returned' = responses'[Len(responses')].content
            /\ call'.ret = "returned"
            /\ pc' = "input"]_vars
    /\ [](\A i \in 1..(Len(responses) - 1) : responses[i].kind # "failed")

\* C17 witness: the stream failed in the second activation of a turn, after a
\* response whose call was executed, and left a partial text.
C17_Witness ==
    /\ pc = "input"
    /\ Len(responses) = 2
    /\ responses[1].kind = "calls"
    /\ responses[2] = [kind |-> "failed", content |-> "<function_calls>val",
                       blocks |-> << >>]
    /\ executed = 2
    /\ modelCalls = 2
    /\ returned = "<function_calls>val"
    /\ current_context[Len(current_context)].content = "<function_calls>val"

Fed == SubSeq(text, 1, fed)

\* C22: while the text fed so far does not hold the opening marker, no
\* feed_chunk call has reported stop, every chunk went to the display
\* unchanged, and the detector's buffer is at most 20 characters long.
C22_NoMarkerNoStop ==
    ~Contains(Fed, OpenTag) =>
        /\ ~report.stop
        /\ report.call = << >>
        /\ shown = Fed
        /\ Len(detector.buffer) <= 20
        /\ ~detector.start_tag_found
        /\ ~legacyReport.stop
        /\ Len(legacy.buffer) <= 20

\* C22 witness: more than 20 characters were fed, ending in all of the
\* opening marker but its last character and a closing marker, in more than
\* one chunk.
C22_Witness ==
    /\ fed = Len(text)
    /\ ~Contains(text, OpenTag)
    /\ Contains(text, CloseTag)
    /\ Len(detector.buffer) = 20
    /\ detector.buffer = SubSeq(text, Len(text) - 19, Len(text))
    /\ shown = text

---------------------------------------------------------------------------
(* The registered capabilities: the functions of functions/todo_functions.py *)
(* on todo_list and of functions/ai_task_functions.py on ai_task_list, called *)
(* with the values parse_value makes of the parameter texts.                  *)

MaxCapabilitySteps == 3   \* longest run of capability calls

\* Python values a parameter can have after parse_value: num is the number an
\* int, a float (truncated) or a bool stands for
Text(str) == [type |-> "str", str |-> str, num |-> 0]
Number(n) == [type |-> "int", str |-> "", num |-> n]
Boolean(b) == [type |-> "bool", str |-> "", num |-> IF b THEN 1 ELSE 0]
Array == [type |-> "list", str |-> "", num |-> 0]
Object == [type |-> "dict", str |-> "", num |-> 0]

\* int(v): the number, or the exception int raises.  Of the texts that
\* parse_value leaves as text, int() accepts those like "+1"
py_int(v) ==
    IF v.type \in {"int", "float", "bool"} THEN [raised |-> "", n |-> v.num]
    ELSE IF v.type = "str"
    THEN IF v.str = "+1" THEN [raised |-> "", n |-> 1]
         ELSE [raised |-> "ValueError", n |-> 0]
    ELSE [raised |-> "TypeError", n |-> 0]

\* try: todo_id = int(todo_id) / except ValueError: return the error text.
\* A TypeError is not caught and leaves the capability
IdError(todo_id) ==
    IF py_int(todo_id).raised = "ValueError" THEN "id must be numeric"
    ELSE IF py_int(todo_id).raised = "TypeError" THEN "raised"
    ELSE ""

\* the text a capability returns for what the engine returned
Reply(ts, r) == IF r.ret = "todo" THEN Result(r.todos, "ok") ELSE Result(ts, "not found")

add_todo(ts, content, priority, now) ==
    Result(add(ts, content, priority, now).todos, "ok")

update_todo_status(ts, todo_id, status) ==
    IF IdError(todo_id) # "" THEN Result(ts, IdError(todo_id))
    ELSE IF status \notin Statuses THEN Result(ts, "bad status")
    ELSE Reply(ts, update_status(ts, py_int(todo_id).n, status))

delete_todo(ts, todo_id) ==
    IF IdError(todo_id) # "" THEN Result(ts, IdError(todo_id))
    ELSE Reply(ts, delete(ts, py_int(todo_id).n))

modify_todo(ts, todo_id, content, priority) ==
    IF IdError(todo_id) # "" THEN Result(ts, IdError(todo_id))
    ELSE IF priority \notin Priorities THEN Result(ts, "bad priority")
    ELSE Reply(ts, modify(ts, py_int(todo_id).n, content, priority))

\* batch_update_todos on a list of dicts: every dict needs "content"
batch_update_todos(ts, todos_data) ==
    IF \E i \in 1..Len(todos_data) : ~HasKey(todos_data[i], "content")
    THEN Result(ts, "missing content")
    ELSE Result(update_all(ts, todos_data).todos, "ok")

my_add_task(ts, content, priority, now) ==
    Result(add(ts, content, priority, now).todos, "ok")

my_start_task(ts, task_id, now) ==
    IF IdError(task_id) # "" THEN Result(ts, IdError(task_id))
    ELSE IF get_active_todos(ts) # {} THEN Result(ts, "already active")
    ELSE IF Find(ts, py_int(task_id).n) = 0 THEN Result(ts, "not found")
    ELSE Reply(ts, start_todo(ts, py_int(task_id).n, now))

my_break_down_task(ts, task_id, subtasks_list) ==
    IF IdError(task_id) # "" THEN Result(ts, IdError(task_id))
    ELSE Reply(ts, break_down_task(ts, py_int(task_id).n, subtasks_list))

\* my_update_progress with a progress that is a number
my_update_progress(ts, task_id, progress, now) ==
    IF IdError(task_id) # "" THEN Result(ts, IdError(task_id))
    ELSE IF progress < 0 \/ progress > 100 THEN Result(ts, "bad progress")
    ELSE Reply(ts, update_progress(ts, py_int(task_id).n, progress, now))

my_complete_subtask(ts, task_id, subtask_id, now) ==
    IF IdError(task_id) # "" THEN Result(ts, IdError(task_id))
    ELSE Reply(ts, complete_subtask(ts, py_int(task_id).n, subtask_id, now))

\* the id values the model hands to a capability: numbers, a text int()
\* rejects, the booleans, a JSON array and a JSON object
IdValues ==
    {Number(i) : i \in IdInputs}
    \cup {Text("abc"), Boolean(TRUE), Boolean(FALSE), Array, Object}

\* the capability op(todo_id, status) returned r
Capability(op, todo_id, status, r) ==
    /\ steps < MaxCapabilitySteps
    /\ steps' = steps + 1
    /\ todos' = r.todos
    /\ issued' = issued \cup IdsOf(r.todos)
    /\ call' = [CallOf(op, py_int(todo_id).n, 0, status, <<0, 0>>, r.ret, << >>)
                  EXCEPT !.arg = todo_id.type]
    /\ UNCHANGED <<sessVars, detVars, turnVars, regVars>>

NoArgument == [type |-> "", str |-> "", num |-> 0]

AddTodo ==
    /\ Len(todos) < MaxTodos
    /\ \E c \in Contents, p \in PriorityInputs, now \in Times :
          Capability("add_todo", NoArgument, "", add_todo(todos, c, p, now))

UpdateTodoStatus ==
    \E v \in IdValues, s \in StatusInputs :
        Capability("update_todo_status", v, s, update_todo_status(todos, v, s))

DeleteTodo ==
    \E v \in IdValues : Capability("delete_todo", v, "", delete_todo(todos, v))

ModifyTodo ==
    \E v \in IdValues, c \in Contents, p \in PriorityInputs :
        Capability("modify_todo", v, "", modify_todo(todos, v, c, p))

BatchUpdateTodos ==
    \E data \in SeqsUpTo(TodoData \cup {[priority |-> "high"]}, MaxBatch) :
        Capability("batch_update_todos", NoArgument, "",
                   batch_update_todos(todos, data))

\* get_all_todos, get_todos_by_status: the list is read
ReadTodos ==
    Capability("get_all_todos", NoArgument, "", Result(todos, "ok"))

TodoFunctionsNext ==
    \/ AddTodo
    \/ UpdateTodoStatus
    \/ DeleteTodo
    \/ ModifyTodo
    \/ BatchUpdateTodos
    \/ ReadTodos

\* todo_list and the capabilities registered on it
SpecTodoFunctions == TodoInit /\ [][TodoFunctionsNext]_vars

MyAddTask ==
    /\ Len(todos) < MaxTodos
    /\ \E c \in Contents, p \in PriorityInputs, now \in Times :
          Capability("my_add_task", NoArgument, "", my_add_task(todos, c, p, now))

MyStartTask ==
    \E v \in IdValues, now \in Times :
        Capability("my_start_task", v, "", my_start_task(todos, v, now))

MyBreakDownTask ==
    \E v \in IdValues, subs \in SeqsUpTo(Contents, MaxSubtasks) :
        Capability("my_break_down_task", v, "", my_break_down_task(todos, v, subs))

MyUpdateProgress ==
    \E v \in IdValues, progress \in ProgressInputs, now \in Times :
        Capability("my_update_progress", v, "",
                   my_update_progress(todos, v, progress, now))

MyCompleteSubtask ==
    \E v \in IdValues, sid \in SubtaskIdInputs, now \in Times :
        Capability("my_complete_subtask", v, "",
                   my_complete_subtask(todos, v, sid, now))

\* my_current_tasks, my_task_summary, my_task_history, my_all_tasks,
\* my_get_subtask_ids: the list is read
ReadTasks ==
    Capability("my_all_tasks", NoArgument, "", Result(todos, "ok"))

AiTasksNext ==
    \/ MyAddTask
    \/ MyStartTask
    \/ MyBreakDownTask
    \/ MyUpdateProgress
    \/ MyCompleteSubtask
    \/ ReadTasks

\* ai_task_list (the variable todos holds it) and the capabilities registered
\* on it
SpecAiTasks == TodoInit /\ [][AiTasksNext]_vars

\* C23: in every state reachable through the registered capabilities every
\* task's status is pending, in_progress or completed and its priority is
\* high, medium or low.
C23_StatusAndPriority ==
    \A i \in 1..Len(todos) :
        /\ todos[i].status \in {"pending", "in_progress", "completed"}
        /\ todos[i].priority \in {"high", "medium", "low"}

\* the status part of C23 on ai_task_list, which has no batch update
C23_AiTaskStatus ==
    \A i \in 1..Len(todos) :
        todos[i].status \in {"pending", "in_progress", "completed"}

\* C24: a capability that takes a task id, handed an id value that is not a
\* number (a non-numeric text, a boolean, a JSON array or object), returns the
\* "id must be numeric" error text, raises nothing and changes no task.
C24_NonNumericId ==
    [][call'.arg \in {"str", "bool", "list", "dict"} =>
          /\ call'.ret = "id must be numeric"
          /\ todos' = todos]_vars

\* C24 for the id values that are texts.
C24_NonNumericText ==
    [][call'.arg = "str" =>
          /\ call'.ret = "id must be numeric"
          /\ todos' = todos]_vars

---------------------------------------------------------------------------
(* SmartParameterParser.parse_value on parameter texts.  A text is a        *)
(* sequence of characters; a Python value is a record of its type and what  *)
(* it holds.                                                                *)

MaxNumberLen == 2    \* most digits of the short numbers among the inputs

\* sys.int_info.default_max_str_digits: int() and json.loads raise ValueError
\* for a decimal text of more digits
IntMaxStrDigits == 4300

StrVal(chars) ==
    [type |-> "str", chars |-> chars, sign |-> 1, num |-> 0, frac |-> << >>,
     items |-> << >>]
IntVal(sign, num) ==
    [type |-> "int", chars |-> << >>, sign |-> sign, num |-> num, frac |-> << >>,
     items |-> << >>]
\* a float: sign, whole part and the digits after the point
FloatVal(sign, num, frac) ==
    [type |-> "float", chars |-> << >>, sign |-> sign, num |-> num, frac |-> frac,
     items |-> << >>]
BoolVal(b) ==
    [type |-> "bool", chars |-> << >>, sign |-> 1, num |-> IF b THEN 1 ELSE 0,
     frac |-> << >>, items |-> << >>]
\* a list of ints
ListVal(items) ==
    [type |-> "list", chars |-> << >>, sign |-> 1, num |-> 0, frac |-> << >>,
     items |-> items]
DictVal ==
    [type |-> "dict", chars |-> << >>, sign |-> 1, num |-> 0, frac |-> << >>,
     items |-> << >>]

Chars(str) ==
    CASE str = "true" -> <<"t", "r", "u", "e">>
      [] str = "false" -> <<"f", "a", "l", "s", "e">>
      [] str = "TRUE" -> <<"T", "R", "U", "E">>
      [] str = "False" -> <<"F", "a", "l", "s", "e">>
      [] str = "abc" -> <<"a", "b", "c">>
      [] str = "truex" -> <<"t", "r", "u", "e", "x">>
      [] str = "not json" -> <<"n", "o", "t", " ", "j", "s", "o", "n">>

DigitChars == <<"0", "1", "2", "3", "4", "5", "6", "7", "8", "9">>
IsDigit(c) == \E d \in 1..10 : DigitChars[d] = c
DigitOf(c) == (CHOOSE d \in 1..10 : DigitChars[d] = c) - 1

\* str.isdigit(): not empty, every character a digit
isdigit(chars) == chars # << >> /\ \A i \in 1..Len(chars) : IsDigit(chars[i])

\* the number a short run of digits stands for
RECURSIVE Decimal(_)
Decimal(chars) ==
    IF chars = << >> THEN 0
    ELSE 10 * Decimal(SubSeq(chars, 1, Len(chars) - 1)) + DigitOf(chars[Len(chars)])

\* str.strip()
strip(chars) ==
    IF \A i \in 1..Len(chars) : chars[i] = " " THEN << >>
    ELSE SubSeq(chars,
                CHOOSE i \in 1..Len(chars) :
                    chars[i] # " " /\ \A j \in 1..(i - 1) : chars[j] = " ",
                CHOOSE i \in 1..Len(chars) :
                    chars[i] # " " /\ \A j \in (i + 1)..Len(chars) : chars[j] = " ")

\* str.lower() on the letters of the inputs
LowerOf(c) ==
    CASE c = "T" -> "t" [] c = "R" -> "r" [] c = "U" -> "u" [] c = "E" -> "e"
      [] c = "F" -> "f" [] c = "C" -> "c" [] c = "L" -> "l" [] c = "A" -> "a"
      [] c = "Q" -> "q" [] c = "I" -> "i" [] c = "X" -> "x" [] c = "Y" -> "y"
      [] c = "N" -> "n" [] OTHER -> c
lower(chars) == [i \in 1..Len(chars) |-> LowerOf(chars[i])]

\* str.replace(c, '')
Without(chars, c) == SelectSeq(chars, LAMBDA x : x # c)

startswith(chars, c) == chars # << >> /\ chars[1] = c
endswith(chars, c) == chars # << >> /\ chars[Len(chars)] = c

Returned(value) == [raised |-> "", value |-> value]
Raised(exception) == [raised |-> exception, value |-> StrVal(<< >>)]

\* int(chars) for chars of digits and '-': an optional '-' and digits, at
\* most 4300 of them
py_int_text(chars) ==
    LET neg == startswith(chars, "-")
        digits == IF neg THEN Tail(chars) ELSE chars
    IN IF ~isdigit(digits) \/ Len(digits) > IntMaxStrDigits THEN Raised("ValueError")
       ELSE Returned(IntVal(IF neg THEN -1 ELSE 1, Decimal(digits)))

\* float(chars) for chars of digits, '-' and '.', with a '.': an optional
\* '-', digits, one '.', digits, with a digit on one side of the point
py_float_text(chars) ==
    LET neg == startswith(chars, "-")
        body == IF neg THEN Tail(chars) ELSE chars
        points == {i \in 1..Len(body) : body[i] = "."}
        point == CHOOSE i \in points : TRUE
        whole == SubSeq(body, 1, point - 1)
        frac == SubSeq(body, point + 1, Len(body))
    IN IF Cardinality(points) # 1 THEN Raised("ValueError")
       ELSE IF ~isdigit(whole \o frac) THEN Raised("ValueError")
       ELSE Returned(FloatVal(IF neg THEN -1 ELSE 1, Decimal(whole), frac))

\* the pieces of chars between its commas
SplitCommas(chars) ==
    LET commas == {i \in 1..Len(chars) : chars[i] = ","}
        n == Cardinality(commas)
        \* position of the k-th comma, 0 and Len + 1 at the ends
        at(k) == IF k = 0 THEN 0
                 ELSE IF k = n + 1 THEN Len(chars) + 1
                 ELSE CHOOSE i \in commas : Cardinality({j \in commas : j <= i}) = k
    IN [k \in 1..(n + 1) |-> SubSeq(chars, at(k - 1) + 1, at(k) - 1)]

\* a JSON integer: an optional '-' and digits without a leading zero
IsJsonInt(chars) ==
    LET digits == IF startswith(chars, "-") THEN Tail(chars) ELSE chars IN
    /\ isdigit(digits)
    /\ Len(digits) > 1 => digits[1] # "0"

\* json.loads on a text wrapped in [] or {}, for the texts of the inputs: {}
\* and the arrays of integers are JSON, every other input text is not.  An
\* integer of more than 4300 digits makes int() raise ValueError inside
\* json.loads
json_loads(chars) ==
    LET inner == SubSeq(chars, 2, Len(chars) - 1)
        pieces == SplitCommas(inner)
    IN IF chars = <<"{", "}">> THEN Returned(DictVal)
       ELSE IF chars[1] = "{" THEN Raised("JSONDecodeError")
       ELSE IF inner = << >> THEN Returned(ListVal(<< >>))
       ELSE IF \E k \in 1..Len(pieces) : ~IsJsonInt(pieces[k])
       THEN Raised("JSONDecodeError")
       ELSE IF \E k \in 1..Len(pieces) : py_int_text(pieces[k]).raised # ""
       THEN Raised("ValueError")
       ELSE Returned(ListVal([k \in 1..Len(pieces) |->
                                 py_int_text(pieces[k]).value.sign
                                   * py_int_text(pieces[k]).value.num]))

\* parse_value after the JSON step
ParseScalar(value) ==
    IF lower(value) \in {Chars("true"), Chars("false")}
    THEN Returned(BoolVal(lower(value) = Chars("true")))
    ELSE IF isdigit(Without(Without(value, "-"), "."))
    THEN LET number == IF \A i \in 1..Len(value) : value[i] # "."
                       THEN py_int_text(value) ELSE py_float_text(value)
         IN IF number.raised = "ValueError" THEN Returned(StrVal(value))
            ELSE number
    ELSE Returned(StrVal(value))

\* parse_value: what it returns, or the exception that leaves it
parse_value(v) ==
    IF v.type # "str" THEN Returned(v)
    ELSE LET value == strip(v.chars) IN
         IF value = << >> THEN Returned(StrVal(<< >>))
         ELSE IF \/ startswith(value, "{") /\ endswith(value, "}")
                 \/ startswith(value, "[") /\ endswith(value, "]")
         THEN LET loaded == json_loads(value) IN
              IF loaded.raised = "" THEN loaded
              ELSE IF loaded.raised = "JSONDecodeError" THEN ParseScalar(value)
              ELSE Raised(loaded.raised)
         ELSE ParseScalar(value)

---------------------------------------------------------------------------
(* SpecParseValue: parse_value handed one value *)

Wrap(open, chars, close) == <<open>> \o chars \o <<close>>

\* the decimal texts of at most MaxNumberLen digits over the digits 0, 1, 7
ShortNumbers ==
    UNION {[1..k -> {"0", "1", "7"}] : k \in 1..MaxNumberLen}

\* a decimal text one digit longer than int() converts
LongNumber == [i \in 1..(IntMaxStrDigits + 1) |-> "1"]

\* parameter texts without the blanks around them
Cores ==
    {<< >>, Chars("true"), Chars("false"), Chars("TRUE"), Chars("False"),
     Chars("abc"), Chars("truex"),
     Wrap("{", Chars("not json"), "}"), <<"{", "}">>, <<"[", "]">>,
     <<"[", "1", "]">>, <<"[", "-", "1", ",", "2", "0", "]">>,
     <<"[", "1", ",", "]">>, <<"[", "0", "1", "]">>, <<"[", "1">>,
     <<"-", "5">>, <<"5", "-">>, <<"1", "-", "1">>, <<"-">>, <<".">>,
     <<"-", "-", "1">>,
     <<"1", ".", "5">>, <<"-", "1", ".", "5">>, <<"1", ".">>, <<".", "5">>,
     <<"1", ".", "2", ".", "3">>,
     LongNumber, <<"-">> \o LongNumber, Wrap("[", LongNumber, "]"),
     Wrap("[", <<"1", ",">> \o LongNumber, "]")}
    \cup ShortNumbers

Blanks == {<< >>, <<" ">>}

\* the values handed to parse_value: texts, and values that are not texts
ParameterValues ==
    {StrVal(b \o c \o e) : b \in Blanks, c \in Cores, e \in Blanks}
    \cup {IntVal(1, 5), BoolVal(TRUE), ListVal(<<1>>), DictVal}

ParseValueInit ==
    /\ todos = << >>
    /\ issued = {}
    /\ call = NoCall
    /\ steps = 0
    /\ SessionFresh
    /\ DetectorFresh
    /\ TurnFresh
    /\ xml \in {[value |-> v] : v \in ParameterValues}
    /\ parsed = [done |-> FALSE, raised |-> "", value |-> StrVal(<< >>)]

ParseValue ==
    /\ ~parsed.done
    /\ parsed' = [done |-> TRUE, raised |-> parse_value(xml.value).raised,
                  value |-> parse_value(xml.value).value]
    /\ UNCHANGED <<todos, issued, call, steps, sessVars, detVars, turnVars, xml>>

SpecParseValue == ParseValueInit /\ [][ParseValue]_vars

\* the six steps of the coercion, on the trimmed text t

IsWrapped(t) ==
    \/ startswith(t, "{") /\ endswith(t, "}")
    \/ startswith(t, "[") /\ endswith(t, "]")

\* the wrapped text is JSON: {} or an array of integers
IsJson(t) ==
    /\ IsWrapped(t)
    /\ \/ t \in {<<"{", "}">>, <<"[", "]">>}
       \/ /\ t[1] = "["
          /\ LET pieces == SplitCommas(SubSeq(t, 2, Len(t) - 1)) IN
             \A k \in 1..Len(pieces) : IsJsonInt(pieces[k])

IsBoolText(t) == lower(t) \in {Chars("true"), Chars("false")}

\* a number: an optional '-', then digits with at most one '.' among them
IsNumberText(t) ==
    LET body == IF startswith(t, "-") THEN Tail(t) ELSE t
        digits == Without(body, ".")
    IN /\ isdigit(digits)
       /\ Len(body) - Len(digits) <= 1

HasPoint(t) == \E i \in 1..Len(t) : t[i] = "."

\* the Python type the six steps give the value v
CoercedType(v, t) ==
    IF v.type # "str" THEN v.type
    ELSE IF t = << >> THEN "str"
    ELSE IF IsJson(t) THEN (IF t[1] = "{" THEN "dict" ELSE "list")
    ELSE IF IsBoolText(t) THEN "bool"
    ELSE IF IsNumberText(t) THEN (IF HasPoint(t) THEN "float" ELSE "int")
    ELSE "str"

\* the result agrees with the six steps in its type, and in what it holds for
\* the unchanged values, the strings and the booleans
AgreesWithSteps(v, t, result) ==
    /\ result.raised = ""
    /\ result.value.type = CoercedType(v, t)
    /\ v.type # "str" => result.value = v
    /\ result.value.type = "str" /\ v.type = "str" => result.value.chars = t
    /\ result.value.type = "bool" /\ v.type = "str"
          => result.value.num = (IF lower(t) = Chars("true") THEN 1 ELSE 0)

\* the numbers of the result are those the text t writes
SameNumbers(v, t, result) ==
    /\ result.value.type = "int" /\ v.type = "str"
          => result.value.sign * result.value.num =
                (IF t[1] = "-" THEN -Decimal(Tail(t)) ELSE Decimal(t))
    /\ result.value.type = "float" /\ v.type = "str"
          => LET body == IF t[1] = "-" THEN Tail(t) ELSE t
                 point == CHOOSE i \in 1..Len(body) : body[i] = "."
             IN /\ result.value.sign = (IF t[1] = "-" THEN -1 ELSE 1)
                /\ result.value.num = Decimal(SubSeq(body, 1, point - 1))
                /\ result.value.frac = SubSeq(body, point + 1, Len(body))
    /\ result.value.type = "list" /\ v.type = "str"
          => LET pieces == SplitCommas(SubSeq(t, 2, Len(t) - 1)) IN
             IF Len(t) = 2 THEN result.value.items = << >>
             ELSE /\ Len(result.value.items) = Len(pieces)
                  /\ \A k \in 1..Len(pieces) :
                        result.value.items[k] =
                           (IF pieces[k][1] = "-" THEN -Decimal(Tail(pieces[k]))
                            ELSE Decimal(pieces[k]))

\* C25: parse_value agrees with the six-step coercion on every input: a
\* non-string is returned unchanged, trimmed-empty text gives the empty
\* string, text wrapped in {} or [] that is JSON gives the parsed structure,
\* true/false in any letter case gives a boolean, a number gives an integer
\* (no '.') or a float ('.' present), and every other text, malformed
\* JSON-looking and numeric-looking text included, gives the trimmed string.
C25_ParseValue ==
    parsed.done =>
        LET t == strip(xml.value.chars) IN
        AgreesWithSteps(xml.value, t, parsed)

\* every digit run of the text has at most MaxNumberLen digits
ShortDigitRuns(chars) ==
    \A i \in 1..(Len(chars) - MaxNumberLen) :
        \E j \in i..(i + MaxNumberLen) : ~IsDigit(chars[j])

\* C25 for the texts whose numbers int() converts, with the numbers.
C25_ShortNumbers ==
    (parsed.done /\ ShortDigitRuns(xml.value.chars)) =>
        LET t == strip(xml.value.chars) IN
        /\ AgreesWithSteps(xml.value, t, parsed)
        /\ SameNumbers(xml.value, t, parsed)

---------------------------------------------------------------------------
(* SpecLogs: the log manager writing entries and reading the logs back.     *)
(* files maps a day to the lines of that date directory's                   *)
(* full_operations.log; a line is a sequence of characters.                 *)

MaxLogSteps == 4     \* longest run of log manager calls
MaxLogDays == 2      \* largest days argument of get_recent_logs

LogMessages == {Chars("abc"), Chars("TRUE")}
Keywords == {Chars("true"), <<"b">>, <<"z">>}

\* _write_log: "[timestamp] message" appended to today's log
write_log(fs, day, t, message) ==
    LET line == <<"[", DigitChars[t + 1], "]", " ">> \o message IN
    IF day \in DOMAIN fs THEN [fs EXCEPT ![day] = Append(@, line)]
    ELSE (day :> <<line>>) @@ fs

\* the date directories, most recent first
RECURSIVE SortedDown(_)
SortedDown(days) ==
    IF days = {} THEN << >>
    ELSE LET top == CHOOSE d \in days : \A e \in days : e <= d
         IN <<top>> \o SortedDown(days \ {top})

\* the loop of get_recent_logs over date_dirs: the logs of the first `days`
\* directories
RecentOf(fs, date_dirs, days) ==
    [d \in {date_dirs[i] : i \in 1..Min(days, Len(date_dirs))} \cap DOMAIN fs
        |-> fs[d]]

\* get_recent_logs: the list comprehension calls d.name.match(...) on every
\* directory of logs_dir, and str has no method match: AttributeError as soon
\* as logs_dir holds a directory
get_recent_logs(fs, days) ==
    IF DOMAIN fs # {} THEN [raised |-> TRUE, logs |-> << >>]
    ELSE [raised |-> FALSE, logs |-> RecentOf(fs, << >>, days)]

\* the lines of logs that hold keyword, letter case ignored, as
\* <<date, line number, line>>, dates in the dict's insertion order
MatchesIn(logs, date_dirs, keyword) ==
    LET of(d) == IF d \notin DOMAIN logs THEN << >>
                 ELSE LET hits == {n \in 1..Len(logs[d]) :
                                      Contains(lower(logs[d][n]), lower(keyword))}
                          nth(k) == CHOOSE n \in hits :
                                       Cardinality({m \in hits : m <= n}) = k
                      IN [k \in 1..Cardinality(hits) |-> <<d, nth(k), logs[d][nth(k)]>>]
        join[i \in 0..Len(date_dirs)] ==
            IF i = 0 THEN << >> ELSE join[i - 1] \o of(date_dirs[i])
    IN join[Len(date_dirs)]

\* search_logs(keyword) with days = 7
search_logs(fs, keyword) ==
    LET recent_logs == get_recent_logs(fs, 7) IN
    IF recent_logs.raised THEN [raised |-> TRUE, results |-> << >>]
    ELSE [raised |-> FALSE,
          results |-> MatchesIn(recent_logs.logs, SortedDown(DOMAIN recent_logs.logs),
                                keyword)]

LogsInit ==
    /\ todos = << >>
    /\ issued = {}
    /\ call = NoCall
    /\ steps = 0
    /\ SessionFresh
    /\ DetectorFresh
    /\ TurnFresh
    /\ xml = [blocks |-> << >>]
    /\ parsed = [raised |-> FALSE, logs |-> << >>, results |-> << >>]

\* the log manager call op returned or raised
LogCalled(op, fs, raised, logs, results) ==
    /\ steps < MaxLogSteps
    /\ steps' = steps + 1
    /\ files' = fs
    /\ parsed' = [raised |-> raised, logs |-> logs, results |-> results]
    /\ call' = CallOf(op, 0, 0, "", <<0, 0>>,
                      IF raised THEN "raised" ELSE "returned", << >>)
    /\ UNCHANGED <<todos, issued, today, wall, current_session_id,
                   current_context, last_activity_time, detVars, turnVars, xml>>

WriteLogEntry ==
    \E message \in LogMessages :
        LogCalled("_write_log", write_log(files, today, wall, message),
                  FALSE, << >>, << >>)

GetRecentLogs ==
    \E days \in 1..MaxLogDays :
        LET r == get_recent_logs(files, days) IN
        /\ LogCalled("get_recent_logs", files, r.raised, r.logs, << >>)
        /\ call'.val = 0

SearchLogs ==
    \E keyword \in Keywords :
        LET r == search_logs(files, keyword) IN
        LogCalled("search_logs", files, r.raised, << >>, r.results)

LogsNext ==
    \/ WriteLogEntry
    \/ GetRecentLogs
    \/ SearchLogs
    \/ NextDay

SpecLogs == LogsInit /\ [][LogsNext]_vars

\* C26: when the logs directory holds dated directories with log files,
\* get_recent_logs(days) returns the log texts of the most recent date
\* directories keyed by date, and search_logs(keyword) returns the lines of
\* those logs that hold the keyword, letter case ignored, each with its date
\* and line number; neither raises.
C26_ReadLogs ==
    [][(DOMAIN files # {} /\ call'.op \in {"get_recent_logs", "search_logs"}) =>
          /\ ~parsed'.raised
          /\ call'.op = "get_recent_logs" =>
                \E days \in 1..MaxLogDays :
                    parsed'.logs = RecentOf(files, SortedDown(DOMAIN files), days)
          /\ call'.op = "search_logs" =>
                \E keyword \in Keywords :
                    parsed'.results =
                        MatchesIn(RecentOf(files, SortedDown(DOMAIN files), 7),
                                  SortedDown(DOMAIN files), keyword)]_vars

\* with no date directory in the logs directory both calls return nothing
\* and do not raise
C26_EmptyLogs ==
    [][(DOMAIN files = {} /\ call'.op \in {"get_recent_logs", "search_logs"}) =>
          /\ ~parsed'.raised
          /\ parsed'.logs = << >>
          /\ parsed'.results = << >>]_vars

---------------------------------------------------------------------------
(* SpecUpdateAll: update_all on a list that add filled, with record lists  *)
(* of several records.                                                      *)

MaxRecords == 2        \* longest record list given to update_all here
MaxUpdateAllSteps == 3 \* longest run of calls

RecordContents == {"a", "b"}

Records ==
    {[content |-> "a"],
     [content |-> "b", status |-> "completed"],
     [content |-> "a", status |-> "bogus", priority |-> "high"],
     [content |-> "b", priority |-> "low"],
     [content |-> "b"]}

AddFirst ==
    /\ Len(todos) < MaxTodos
    /\ \E c \in RecordContents, now \in Times :
          CalledWithin(MaxUpdateAllSteps, "add", 0, 0, "", <<0, 0>>,
                       add(todos, c, "medium", now))

UpdateAllRecords ==
    \E todos_data \in SeqsUpTo(Records, MaxRecords) :
        LET r == update_all(todos, todos_data) IN
        /\ steps < MaxUpdateAllSteps
        /\ steps' = steps + 1
        /\ todos' = r.todos
        /\ issued' = issued \cup IdsOf(r.todos)
        /\ call' = [CallOf("update_all", Len(todos), 0, "", <<0, 0>>, r.ret, << >>)
                      EXCEPT !.arg = todos_data]
        /\ UNCHANGED <<sessVars, detVars, turnVars, regVars>>

UpdateAllNext ==
    \/ AddFirst
    \/ UpdateAllRecords

SpecUpdateAll == TodoInit /\ [][UpdateAllNext]_vars

\* C27: after update_all(records) the list holds exactly len(records) tasks,
\* with ids 1..N in input order, each with the record's content and its
\* status and priority taken from the record or defaulted to pending and
\* medium, whatever the list held before.
C27_UpdateAll ==
    [][call'.op = "update_all" =>
          LET records == call'.arg IN
          /\ Len(todos') = Len(records)
          /\ \A i \in 1..Len(records) :
                /\ todos'[i].id = i
                /\ todos'[i].content = records[i].content
                /\ todos'[i].status = IF "status" \in DOMAIN records[i]
                                      THEN records[i].status ELSE "pending"
                /\ todos'[i].priority = IF "priority" \in DOMAIN records[i]
                                        THEN records[i].priority ELSE "medium"]_vars

\* update_all was given two records with different contents, one of them
\* without status and priority, on a list that held a task (call.id is the
\* length of the list before the call)
C27_Witness ==
    /\ call.op = "update_all"
    /\ call.id > 0
    /\ Len(call.arg) = 2
    /\ call.arg[1].content # call.arg[2].content
    /\ DOMAIN call.arg[1] = {"content"}
    /\ "status" \in DOMAIN call.arg[2]
    /\ Len(todos) = 2

---------------------------------------------------------------------------
(* Execution log and status order, checked under SpecTodo *)

\* the value of key k of task t as a tuple, empty when the key is missing
Get(t, k) == IF HasKey(t, k) THEN <<t[k]>> ELSE << >>

\* the task's status, progress or subtasks differ between t and u
Changed(t, u) ==
    \/ Get(t, "status") # Get(u, "status")
    \/ Get(t, "progress") # Get(u, "progress")
    \/ Get(t, "subtasks") # Get(u, "subtasks")

LogLen(t) == IF HasKey(t, "execution_log") THEN Len(t.execution_log) ELSE 0

EngineOperations ==
    {"start_todo", "update_status", "update_progress", "break_down_task",
     "complete_subtask"}

\* C28: every engine operation that changes a task's status, progress or
\* subtasks (start_todo, update_status, update_progress, break_down_task,
\* complete_subtask, completion) appends at least one entry to that task's
\* execution log.
C28_ExecutionLog ==
    [][call'.op \in EngineOperations =>
          \A i \in 1..Len(todos) :
              Changed(todos[i], todos'[i]) => LogLen(todos'[i]) > LogLen(todos[i])]_vars

\* the operations other than update_status append an entry whenever they
\* return
C28_LoggedOperations ==
    [][(call'.op \in EngineOperations \ {"update_status"} /\ call'.ret # "raised") =>
          \A i \in 1..Len(todos) :
              Changed(todos[i], todos'[i]) => LogLen(todos'[i]) > LogLen(todos[i])]_vars

StatusOperations ==
    {"update_progress", "complete_subtask", "start_todo", "update_status"}

\* C29: a task's status changes only along pending -> in_progress ->
\* completed: in any sequence of update_progress, complete_subtask,
\* start_todo and update_status calls a task never becomes completed without
\* having been in_progress first.
C29_StatusOrder ==
    [][call'.op \in StatusOperations =>
          \A i \in 1..Len(todos) :
              todos[i].status # todos'[i].status =>
                  <<todos[i].status, todos'[i].status>> \in
                      {<<"pending", "in_progress">>, <<"in_progress", "completed">>}]_vars

\* update_progress and complete_subtask change a status to completed only,
\* start_todo to in_progress only
C29_StatusTargets ==
    [][call'.op \in StatusOperations =>
       \A i \in 1..Len(todos) :
          todos[i].status # todos'[i].status =>
              /\ call'.op \in {"update_progress", "complete_subtask"} =>
                    todos'[i].status = "completed"
              /\ call'.op = "start_todo" => todos'[i].status = "in_progress"]_vars

\* C37: in every reachable state of a task list every task whose status is
\* completed has progress 100 and a completed_at that is not absent.
C37_CompletedIsFinished ==
    \A i \in 1..Len(todos) :
        todos[i].status = "completed" =>
            /\ Get(todos[i], "progress") = <<100>>
            /\ Get(todos[i], "completed_at") \notin {<< >>, <<None>>}

\* update_progress and complete_subtask, when they make a task completed and
\* return, leave it with progress 100 and completed_at set
C37_CompletionSetsFields ==
    [][(call'.op \in {"update_progress", "complete_subtask"} /\ call'.ret # "raised") =>
          \A i \in 1..Len(todos) :
              (todos[i].status # "completed" /\ todos'[i].status = "completed") =>
                  /\ Get(todos'[i], "progress") = <<100>>
                  /\ Get(todos'[i], "completed_at") \notin {<< >>, <<None>>}]_vars

\* update_progress or complete_subtask has completed a task
C37_Completed ==
    /\ call.op \in {"update_progress", "complete_subtask"}
    /\ call.ret = "todo"
    /\ \E i \in 1..Len(todos) :
          /\ todos[i].id = call.id
          /\ todos[i].status = "completed"
          /\ Get(todos[i], "progress") = <<100>>

---------------------------------------------------------------------------
(* SpecRotate: the chat handler adding messages while time and the         *)
(* calendar advance.                                                        *)

MaxRotateSteps == 6  \* longest run of calls and clock readings

\* check_session_timeout: a new session when the timeout is due
check_session_timeout(sm, day, t) ==
    IF check_timeout(sm, t) THEN create_new_session(sm, day, t) ELSE sm

add_user_message(sm, message, day, t) ==
    add_message(check_session_timeout(sm, day, t), "user", message, day, t)

add_assistant_message(sm, message, day, t) ==
    add_message(sm, "assistant", message, day, t)

\* the chat handler call op takes the session manager to sm
RotateCalled(op, ret, sm) ==
    /\ steps < MaxRotateSteps
    /\ steps' = steps + 1
    /\ files' = sm.files
    /\ current_session_id' = sm.current_session_id
    /\ current_context' = sm.current_context
    /\ last_activity_time' = sm.last_activity_time
    /\ call' = CallOf(op, 0, 0, "", <<0, 0>>, ret, sm.current_session_id)
    /\ UNCHANGED <<todos, issued, today, wall, detVars, turnVars, regVars>>

\* the "new" command and the start of the program without stored sessions
NewSession ==
    RotateCalled("create_new_session", "id", create_new_session(SM, today, wall))

AddUserMessage ==
    \E message \in MsgTexts :
        RotateCalled("add_user_message",
                     IF check_timeout(SM, wall) THEN "rotated" ELSE "kept",
                     add_user_message(SM, message, today, wall))

AddAssistantMessage ==
    /\ current_session_id # NoId
    /\ \E message \in MsgTexts :
          RotateCalled("add_assistant_message", "none",
                       add_assistant_message(SM, message, today, wall))

Elapse ==
    /\ steps < MaxRotateSteps
    /\ steps' = steps + 1
    /\ \E d \in Elapses : wall' = wall + d
    /\ call' = CallOf("tick", 0, 0, "", <<0, 0>>, "none", << >>)
    /\ UNCHANGED <<todos, issued, files, today, current_session_id,
                   current_context, last_activity_time, detVars, turnVars, regVars>>

RotateNext ==
    \/ NewSession
    \/ AddUserMessage
    \/ AddAssistantMessage
    \/ Elapse
    \/ NextDay

SpecRotate == SessionInit /\ [][RotateNext]_vars

\* C30: add_user_message called more than 1800 seconds after the last
\* activity first rotates to a newly created session: the message is the
\* only message of the new session, the context built for the turn holds
\* none of the previous session's messages, and the previous session's
\* stored messages are unchanged.
C30_TimeoutRotates ==
    [][(/\ call'.op = "add_user_message"
        /\ wall - last_activity_time > 1800
        /\ current_session_id # NoId) =>
          /\ Len(current_context') = 1
          /\ current_context'[1].role = "user"
          /\ files'[<<today, current_session_id'>>].messages = current_context'
          /\ \A k \in DOMAIN files :
                k[2] = current_session_id => files'[k].messages = files[k].messages]_vars

\* after a timeout the context and today's file of the current session hold
\* the new message only, and the stored messages of the previous session are
\* unchanged when the new session's id has no file in today's directory
C30_RotatesToFreshId ==
    [][(/\ call'.op = "add_user_message"
        /\ wall - last_activity_time > 1800
        /\ current_session_id # NoId) =>
          /\ Len(current_context') = 1
          /\ current_context'[1].role = "user"
          /\ files'[<<today, current_session_id'>>].messages = current_context'
          /\ <<today, current_session_id'>> \notin DOMAIN files =>
                \A k \in DOMAIN files : files'[k].messages = files[k].messages]_vars

---------------------------------------------------------------------------
(* SpecBatch: batch_update_todos on every kind of input, on a list that    *)
(* add filled.                                                              *)

\* todos_json: a str (valid JSON or not) or a value already parsed; type and
\* items are those of the value json.loads gives, or of the value itself
Json(isstr, valid, type, items) ==
    [isstr |-> isstr, valid |-> valid, type |-> type, items |-> items]

\* an element of the array: its type and, for an object, its keys and values
Element(type, dict) == [type |-> type, dict |-> dict]

Elements ==
    {Element("dict", [content |-> "a"]),
     Element("dict", [content |-> "b", status |-> "completed"]),
     Element("dict", [priority |-> "high"]),
     Element("int", [value |-> "5"])}

TodosJson ==
    {Json(TRUE, FALSE, "", << >>)}
    \cup {Json(isstr, TRUE, type, << >>) :
            isstr \in BOOLEAN, type \in {"dict", "int", "bool", "str"}}
    \cup {Json(isstr, TRUE, "list", items) :
            isstr \in BOOLEAN, items \in SeqsUpTo(Elements, MaxRecords)}

\* the first element that is no object or lacks "content", 0 when there is none
FirstBad(items) ==
    LET bad == {i \in 1..Len(items) :
                   items[i].type # "dict" \/ ~HasKey(items[i].dict, "content")}
    IN IF bad = {} THEN 0 ELSE CHOOSE i \in bad : \A j \in bad : i <= j

\* batch_update_todos replacing the list by the records before the first
\* record it rejects
batch_update_todos_json_Partial(ts, todos_json) ==
    LET items == todos_json.items
        i == FirstBad(items) IN
    IF todos_json.isstr /\ ~todos_json.valid THEN Result(ts, "not json")
    ELSE IF todos_json.type # "list" THEN Result(ts, "not array")
    ELSE IF i # 0
    THEN Result(update_all(ts, [k \in 1..(i - 1) |-> items[k].dict]).todos,
                IF items[i].type # "dict" THEN "not object" ELSE "missing content")
    ELSE Result(update_all(ts, [k \in 1..Len(items) |-> items[k].dict]).todos, "ok")

\* batch_update_todos(todos_json): json.loads of a str, the array check, the
\* check of every element, then update_all
batch_update_todos_json(ts, todos_json) ==
    LET items == todos_json.items
        i == FirstBad(items) IN
    IF todos_json.isstr /\ ~todos_json.valid THEN Result(ts, "not json")
    ELSE IF todos_json.type # "list" THEN Result(ts, "not array")
    ELSE IF i # 0
    THEN Result(ts, IF items[i].type # "dict" THEN "not object"
                    ELSE "missing content")
    ELSE batch_update_todos(ts, [k \in 1..Len(items) |-> items[k].dict])

BatchUpdateJson ==
    \E todos_json \in TodosJson :
        LET r == batch_update_todos_json(todos, todos_json) IN
        /\ steps < MaxUpdateAllSteps
        /\ steps' = steps + 1
        /\ todos' = r.todos
        /\ issued' = issued \cup IdsOf(r.todos)
        /\ call' = [CallOf("batch_update_todos", Len(todos), 0, "", <<0, 0>>,
                           r.ret, << >>) EXCEPT !.arg = todos_json]
        /\ UNCHANGED <<sessVars, detVars, turnVars, regVars>>

BatchNext ==
    \/ AddFirst
    \/ BatchUpdateJson

SpecBatch == TodoInit /\ [][BatchNext]_vars

\* the input is not valid JSON, is not an array, or has an element that is
\* not an object with a content field
Rejected(todos_json) ==
    \/ todos_json.isstr /\ ~todos_json.valid
    \/ todos_json.type # "list"
    \/ \E i \in 1..Len(todos_json.items) :
          \/ todos_json.items[i].type # "dict"
          \/ "content" \notin DOMAIN todos_json.items[i].dict

\* C31: batch_update_todos given input that is not valid JSON, is not an
\* array, or has an element that is not an object with a content field
\* returns a failure text, raises nothing and leaves the list exactly as it
\* was.
C31_BatchRejects ==
    [][(call'.op = "batch_update_todos" /\ Rejected(call'.arg)) =>
          /\ call'.ret \in {"not json", "not array", "not object", "missing content"}
          /\ todos' = todos]_vars

\* C31 witness: an array whose second element lacks content, after a first
\* element that is a complete record, was rejected on a list holding a task
C31_Witness ==
    /\ call.op = "batch_update_todos"
    /\ call.id > 0
    /\ call.ret = "missing content"
    /\ Len(call.arg.items) = 2
    /\ "content" \in DOMAIN call.arg.items[1].dict
    /\ Len(todos) = call.id

---------------------------------------------------------------------------
(* SpecCli: the CLI loop of main.py reading lines, with the turn driver    *)
(* and simulated model responses.  A line is a sequence of characters.     *)

MaxLines == 3        \* lines read in one run of the CLI

CommandWords ==
    {<<"e", "x", "i", "t">>, <<"q", "u", "i", "t">>,
     <<"c", "l", "e", "a", "r">>, <<"c", "o", "n", "t", "e", "x", "t">>,
     <<"f", "u", "n", "c", "t", "i", "o", "n", "s">>,
     <<"s", "e", "s", "s", "i", "o", "n", "s">>,
     <<"n", "e", "w", "s", "e", "s", "s", "i", "o", "n">>,
     <<"s", "y", "s", "p", "r", "o", "m", "p", "t">>}

\* the lines typed: empty and blank lines, command words in either letter
\* case and with a slash, free text, free text with a slash, answers
Lines ==
    {<< >>, <<" ">>,
     <<"Q", "U", "I", "T">>, <<"/", "e", "x", "i", "t">>,
     <<"C", "l", "e", "a", "r", " ">>,
     <<"/", "n", "e", "w", "s", "e", "s", "s", "i", "o", "n">>,
     <<"c", "o", "n", "t", "e", "x", "t">>,
     <<"h", "i">>, <<"/", "h", "i">>, <<"Y">>, <<"n">>}

\* str.lstrip(c)
RECURSIVE lstrip(_, _)
lstrip(chars, c) ==
    IF chars # << >> /\ chars[1] = c THEN lstrip(Tail(chars), c) ELSE chars

\* handle_command(user_input): the session manager after the command, and
\* whether the program continues
handle_command(sm, user_input, day, t) ==
    LET command == lower(strip(user_input)) IN
    IF command \in {<<"e", "x", "i", "t">>, <<"q", "u", "i", "t">>}
    THEN [sm |-> sm, continue |-> FALSE]
    ELSE IF command = <<"c", "l", "e", "a", "r">>
    THEN [sm |-> clear_current_session(sm, day, t), continue |-> TRUE]
    ELSE IF command = <<"n", "e", "w", "s", "e", "s", "s", "i", "o", "n">>
    THEN [sm |-> create_new_session(sm, day, t), continue |-> TRUE]
    ELSE [sm |-> sm, continue |-> TRUE]

\* handle_confirmation(user_input)
handle_confirmation(user_input) ==
    lower(strip(user_input)) \in {<<"y">>, <<"y", "e", "s">>}

\* what one pass of the loop of run() does with the line read
LineRead(op, line, ret, sm, next, pending, results) ==
    /\ steps' = steps + 1
    /\ call' = [CallOf(op, 0, 0, "", <<0, 0>>, ret, << >>) EXCEPT !.arg = line]
    /\ SetSession(sm)
    /\ pc' = next
    /\ pending_confirmation' = pending
    /\ pending_results' = results

\* one pass of the loop of run(): the line is the answer to a pending
\* confirmation, is empty, is a command, or is a message that starts a turn
ReadLine ==
    /\ pc = "input"
    /\ steps < MaxLines
    /\ \E line \in Lines :
          LET user_input == strip(line) IN
          IF pending_confirmation
          THEN /\ LineRead("handle_confirmation", line,
                           IF handle_confirmation(user_input) THEN "true" ELSE "false",
                           SM, "input", FALSE, << >>)
               /\ UNCHANGED <<depth, turns, modelCalls, executed, responses, turnBase>>
          ELSE IF user_input = << >>
          THEN /\ LineRead("empty_line", line, "none", SM, "input",
                           pending_confirmation, pending_results)
               /\ UNCHANGED <<depth, turns, modelCalls, executed, responses, turnBase>>
          ELSE IF startswith(user_input, "/") \/ lower(user_input) \in CommandWords
          THEN LET r == handle_command(SM, lstrip(user_input, "/"), today, wall) IN
               /\ LineRead("handle_command", line,
                           IF r.continue THEN "true" ELSE "false", r.sm,
                           IF r.continue THEN "input" ELSE "exited",
                           pending_confirmation, pending_results)
               /\ UNCHANGED <<depth, turns, modelCalls, executed, responses, turnBase>>
          ELSE /\ turns < MaxTurns
               /\ LET sm == add_user_message(SM, user_input, today, wall) IN
                  /\ LineRead("add_user_message", line, "none", sm, "turn",
                              pending_confirmation, pending_results)
                  /\ turnBase' = Len(sm.current_context)
               /\ depth' = 0
               /\ turns' = turns + 1
               /\ modelCalls' = 0
               /\ executed' = 0
               /\ responses' = << >>
    /\ UNCHANGED <<todos, issued, today, wall, detVars, returned, regVars>>

CliNext ==
    \/ ReadLine
    \/ TurnStep
    \/ DepthLimit

SpecCli == TurnInit /\ [][CliNext]_vars

LineOperations ==
    {"handle_confirmation", "empty_line", "handle_command", "add_user_message"}

\* the line is one of the command words, with or without a leading '/'
IsCommandWord(user_input) ==
    \/ lower(user_input) \in CommandWords
    \/ /\ startswith(user_input, "/")
       /\ lower(Tail(user_input)) \in CommandWords

\* the line was recorded as a user message and a turn was entered
RecordedAsMessage(user_input) ==
    /\ call'.op = "add_user_message"
    /\ Len(current_context') = Len(current_context) + 1
    /\ current_context'[Len(current_context')].role = "user"
    /\ current_context'[Len(current_context')].content = user_input
    /\ pc' = "turn"

\* C33: every non-empty input line that is not one of the recognized command
\* words (exit, quit, clear, context, functions, sessions, newsession,
\* sysprompt, with or without a leading '/') is recorded as a user message
\* and processed as a conversation turn.
C33_FreeTextIsMessage ==
    [][(/\ call'.op \in LineOperations
        /\ ~pending_confirmation
        /\ strip(call'.arg) # << >>
        /\ ~IsCommandWord(strip(call'.arg)))
          => RecordedAsMessage(strip(call'.arg))]_vars

\* C33 for the lines that do not begin with '/'
C33_NoSlash ==
    [][(/\ call'.op \in LineOperations
        /\ ~pending_confirmation
        /\ strip(call'.arg) # << >>
        /\ ~startswith(strip(call'.arg), "/")
        /\ ~IsCommandWord(strip(call'.arg)))
          => RecordedAsMessage(strip(call'.arg))]_vars

\* the line just read was taken as the answer: the pending state is cleared,
\* no capability ran, the session and the task list are as they were, and the
\* loop waits for the next line
TakenAsAnswer ==
    /\ call'.op = "handle_confirmation"
    /\ ~pending_confirmation'
    /\ pending_results' = << >>
    /\ pc' = "input"
    /\ UNCHANGED <<todos, executed, modelCalls, files, current_session_id,
                   current_context>>

\* C34: once a function result has flagged needs_confirmation, the next input
\* line is consumed as the Y/N answer and not as a command or message;
\* whatever the answer, the pending flag and the pending results are cleared,
\* no capability is executed, nothing is appended to the session, and the
\* following input is read as free text again.
C34_ConfirmationAnswer ==
    /\ [][(modelCalls' = modelCalls + 1 /\ Flagged(responses'[Len(responses')]))
            => (pending_confirmation' /\ pc' = "input")]_vars
    /\ [][(pending_confirmation /\ call'.op \in LineOperations)
            => TakenAsAnswer]_vars
    /\ [][(~pending_confirmation /\ call'.op \in LineOperations)
            => call'.op # "handle_confirmation"]_vars

\* C34 for the flagged results that function_call_handler is given
C34_WhenHandled ==
    /\ [][(/\ modelCalls' = modelCalls + 1
           /\ Flagged(responses'[Len(responses')])
           /\ ~parse_and_execute(responses'[Len(responses')]).raised)
            => (pending_confirmation' /\ pc' = "input")]_vars
    /\ [][(pending_confirmation /\ call'.op \in LineOperations)
            => TakenAsAnswer]_vars
    /\ [][(~pending_confirmation /\ call'.op \in LineOperations)
            => call'.op # "handle_confirmation"]_vars

---------------------------------------------------------------------------
(* SpecMyTasks: ai_task_list after some my_add_task calls, under the        *)
(* capabilities registered on it.                                           *)

\* the list after my_add_task was called n times
RECURSIVE AddedTasks(_)
AddedTasks(n) ==
    IF n = 0 THEN << >>
    ELSE my_add_task(AddedTasks(n - 1), "a", "medium", 1).todos

MyTasksInit ==
    /\ todos \in {AddedTasks(n) : n \in 0..MaxTodos}
    /\ issued = IdsOf(todos)
    /\ call = NoCall
    /\ steps = 0
    /\ SessionFresh
    /\ DetectorFresh
    /\ TurnFresh
    /\ RegistryFresh

\* the capabilities called with the ids of the list's tasks, an id of no
\* task and a text that is no number
TaskIds == {Number(i) : i \in 1..(MaxTodos + 1)} \cup {Text("abc")}

AddMyTask ==
    /\ Len(todos) < MaxTodos
    /\ Capability("my_add_task", NoArgument, "", my_add_task(todos, "a", "medium", 1))

StartMyTask ==
    \E v \in TaskIds :
        Capability("my_start_task", v, "", my_start_task(todos, v, 1))

BreakDownMyTask ==
    \E v \in TaskIds, subs \in {<<"a">>, <<"a", "a">>} :
        Capability("my_break_down_task", v, "", my_break_down_task(todos, v, subs))

UpdateMyProgress ==
    \E v \in TaskIds, progress \in {50, 100} :
        Capability("my_update_progress", v, "",
                   my_update_progress(todos, v, progress, 1))

CompleteMySubtask ==
    \E v \in TaskIds, k \in 1..2 :
        Capability("my_complete_subtask", v, "",
                   my_complete_subtask(todos, v, <<py_int(v).n, k>>, 1))

MyTasksNext ==
    \/ AddMyTask
    \/ StartMyTask
    \/ BreakDownMyTask
    \/ UpdateMyProgress
    \/ CompleteMySubtask

SpecMyTasks == MyTasksInit /\ [][MyTasksNext]_vars

\* C35: the agent's own task list, changed only through my_add_task,
\* my_start_task, my_break_down_task, my_update_progress and
\* my_complete_subtask, has at most one in_progress task in every reachable
\* state.
C35_OneTaskInProgress ==
    Cardinality({i \in 1..Len(todos) : todos[i].status = "in_progress"}) <= 1

\* C35 witness: my_start_task was refused because another task is in
\* progress
C35_Witness ==
    /\ call.op = "my_start_task"
    /\ call.ret = "already active"
    /\ \E i \in 1..Len(todos) :
          todos[i].status = "in_progress" /\ todos[i].id # call.id
    /\ \E i \in 1..Len(todos) :
          todos[i].status = "pending" /\ todos[i].id = call.id

---------------------------------------------------------------------------
(* registry.call around the handlers of functions/todo_functions.py: an    *)
(* exception that leaves a handler becomes a failed result, and what the    *)
(* handler assigned before it stays assigned.  start_todo and               *)
(* get_active_todos are handlers of todo_functions.py that                  *)
(* functions/__init__.py does not register; register() takes any callable.  *)

\* todo_functions.start_todo: int(todo_id), todo_list.start_todo, then the
\* text made of the returned dict
todo_functions_start_todo(ts, todo_id, now) ==
    IF IdError(todo_id) # "" THEN Result(ts, IdError(todo_id))
    ELSE LET started == start_todo(ts, py_int(todo_id).n, now)
         IN IF started.ret = "raised" THEN started ELSE Reply(ts, started)

\* todo_functions.get_active_todos: reads todo['progress'] and
\* todo['subtasks'] of every task in progress
todo_functions_get_active_todos(ts) ==
    IF \E i \in get_active_todos(ts) :
          ~HasKey(ts[i], "progress") \/ ~HasKey(ts[i], "subtasks")
    THEN Result(ts, "raised")
    ELSE Result(ts, "ok")

StartTodoHandler ==
    \E v \in IdValues, now \in Times :
        Capability("start_todo", v, "", todo_functions_start_todo(todos, v, now))

GetActiveTodosHandler ==
    Capability("get_active_todos", NoArgument, "",
               todo_functions_get_active_todos(todos))

HandlersNext ==
    \/ AddTodo
    \/ UpdateTodoStatus
    \/ DeleteTodo
    \/ ModifyTodo
    \/ BatchUpdateTodos
    \/ ReadTodos
    \/ StartTodoHandler
    \/ GetActiveTodosHandler

\* todo_list and the handlers of todo_functions.py called through the registry
SpecHandlers == TodoInit /\ [][HandlersNext]_vars

RegisteredOperations ==
    {"add_todo", "update_todo_status", "get_all_todos", "delete_todo",
     "modify_todo", "batch_update_todos"}

C36_RegisteredLeaveLists ==
    [][(call'.op \in RegisteredOperations /\ call'.ret = "raised")
          => todos' = todos]_vars

\* a registered capability raised (int() of a JSON array)
C36_RegisteredRaised ==
    /\ call.op \in RegisteredOperations
    /\ call.ret = "raised"
    /\ todos # << >>

---------------------------------------------------------------------------
(* SpecSaves: a session created and then saved again and again while the   *)
(* clock advances.                                                          *)

SavesNext ==
    \/ CreateNewSession
    \/ AddMessage
    \/ ClearCurrentSession
    \/ Tick

SpecSaves == SessionInit /\ [][SavesNext]_vars

SavingOperations == {"add_message", "clear_current_session"}

\* C38: a session's persisted created_at is set when the session is created
\* and is left unchanged by every later save of that session (add_message,
\* clear_current_session); only last_activity and messages change.
C38_CreatedAtKept ==
    [][call'.op \in SavingOperations =>
          \A k \in DOMAIN files :
              /\ k \in DOMAIN files'
              /\ files'[k].session_id = files[k].session_id
              /\ files'[k].created_at = files[k].created_at]_vars

\* every save of the current session keeps the other files and the saved
\* file's session_id, and stamps created_at and last_activity alike with the
\* time of the save
C38_SaveStampsBoth ==
    [][(call'.op \in SavingOperations /\ current_session_id # NoId) =>
          LET k == <<today, current_session_id>> IN
          /\ DOMAIN files' = DOMAIN files \cup {k}
          /\ \A j \in DOMAIN files \ {k} : files'[j] = files[j]
          /\ files'[k].session_id = current_session_id
          /\ files'[k].created_at = wall
          /\ files'[k].last_activity = wall
          /\ files'[k].messages = current_context']_vars

\* a session created earlier was saved at a later time
C38_SavedLater ==
    /\ call.op \in SavingOperations
    /\ current_session_id # NoId
    /\ <<today, current_session_id>> \in DOMAIN files
    /\ wall > 0
    /\ files[<<today, current_session_id>>].last_activity = wall

====
